---- MODULE Spec2Model ----
(***************************************************************************)
(* Model of the process-supervision engine (ProcessService) and of the    *)
(* RingBuffer it keeps per pid.                                            *)
(*                                                                         *)
(* The engine is single-threaded: every request handler and every          *)
(* callback (exit, error, data, kill completion) runs to completion, so    *)
(* each is one action.  A handler is written as an operator over a record  *)
(* s of the module-level maps, so that a handler that calls another        *)
(* (runCommand calls stopCommand) is the composition of the operators, in  *)
(* the order of the code.  Besides the maps, s carries the trace of the    *)
(* handler's own execution: the events it emitted (emitted), what the     *)
(* maps were at each spawnKill (atKill), the direct signals it sent        *)
(* (sent) and whether it resolved the promise of killProcessByPid          *)
(* (resolved).  Only emitted is kept in the state, as the output of the    *)
(* step.                                                                   *)
(*                                                                         *)
(* Pids are handed out fresh by the OS (nextPid); the OS reusing the pid   *)
(* of a dead process is not modelled.                                      *)
(***************************************************************************)
EXTENDS Integers, Sequences, FiniteSets, TLC

(***************************************************************************)
(* Bounds                                                                  *)
(***************************************************************************)
\* number of OS processes the engine may create in one behaviour
MaxPid == 2
\* the same, in the behaviours of one project that is restarted (SpecRestart)
MaxRestartPid == 3
\* number of killProcessByPid calls whose taskkill has not completed yet
MaxPendingKills == 1
\* the pids of an OS process table are 0 .. MaxTreePid
MaxTreePid == 3

Projects == {"A", "B"}
Pids == 1 .. MaxPid
RestartPids == 1 .. MaxRestartPid
\* the pid of a process the engine did not start (one found on a port): never
\* a key of the registry, since the OS hands out the pids of live processes
\* to nobody else
ForeignPids == {MaxPid + MaxRestartPid + 1}
\* a RingBuffer on its own is constructed with a capacity of 1 .. MaxCapacity
\* and receives at most MaxPushes items between two clears
MaxCapacity == 3
MaxPushes == 4
Capacities == 1 .. MaxCapacity
\* the items pushed to it
Items == {"a", "b", "c", "d"}
\* number of tick callbacks of the monitor that have not returned
MaxTicks == 1
\* number of output chunks a process writes once the behaviour has begun
MaxChunks == 1

\* commands in the startup profile
MaxCommands == 2
\* the streams of a child
Streams == {"stdout", "stderr"}
\* the pids of the process table: 0 is the idle process, the pids up to MaxPid
\* may be processes of the engine, the others are not
TreePids == 0 .. MaxTreePid

\* project types: "node" stands for every type resolved by COMMAND_MAP
ProjectTypes == {"node", "unity", "unreal"}
\* exit codes the OS reports: zero and nonzero (a null code, of a child killed
\* by a signal, is not === 0 and takes the branches of a nonzero code)
ExitCodes == {0, 1}
\* errno codes of an error raised by spawn or reported by the child
ErrnoCodes == {"ENOENT"}
\* every code classifyError names, one it does not name, and (the empty
\* string) an error without a code
AllErrnoCodes == {"ENOENT", "EACCES", "EPERM", "EAGAIN", "EMFILE", "EINVAL", ""}

LOG_BUFFER_SIZE == 1000
MIN_MONITOR_INTERVAL_MS == 1500
MONITOR_INTERVAL_MS == 2000

(***************************************************************************)
(* State                                                                   *)
(***************************************************************************)
VARIABLES
  registry,        \* Map<pid, ProcessEntry>
  projectIndex,    \* Map<projectId, pid>
  processHandles,  \* keys of Map<pid, ChildProcess>
  logBuffers,      \* Map<pid, RingBuffer<LogEntry>>
  children,        \* the live ChildProcess objects, with the handlers wired to them
  killers,         \* taskkill processes of killProcessByPid not yet completed
  stopPending,     \* live pids that stopCommand acted on (exit not yet handled)
  nextPid,         \* next pid the OS hands out
  emitted,         \* events passed to eventEmitter by the last step, in order
  asyncErrored,    \* live pids whose child reported an error after registration
  lookup,          \* the identifyProjectIdFromPid call in flight, or the last one
  returned,        \* what the last call of a query (getLogsForPid) returned
  monitoringInterval, \* ProcessService.monitoringInterval: "null" or "timer"
  timers,          \* number of interval timers the runtime holds for the monitor
  ticks,           \* the tick callbacks of the monitor that have not returned
  pollInterval,    \* the value of MONITOR_INTERVAL_MS the engine is built with
  ring,            \* a RingBuffer on its own, or NoRing
  pushed,          \* the items pushed to ring since its construction or last clear
  runningProfiles, \* ProfileService.runningProfiles: Map<profileId, boolean>
  executions       \* the runProfile calls that have not settled, each at its await

mapVars == <<registry, projectIndex, processHandles, logBuffers, children, killers,
             stopPending, nextPid, emitted, asyncErrored, lookup>>
monitorVars == <<monitoringInterval, timers, ticks, pollInterval>>
ringVars == <<ring, pushed>>
profileVars == <<runningProfiles, executions>>

\* what the handlers of the process maps leave alone
otherVars == <<returned, monitorVars, ringVars, profileVars>>

vars == <<registry, projectIndex, processHandles, logBuffers, children, killers,
          stopPending, nextPid, emitted, asyncErrored, lookup, otherVars>>

(***************************************************************************)
(* JavaScript Map                                                          *)
(***************************************************************************)
MapHas(m, k) == k \in DOMAIN m
MapSet(m, k, v) == [x \in DOMAIN m \cup {k} |-> IF x = k THEN v ELSE m[x]]
MapDelete(m, k) == [x \in DOMAIN m \ {k} |-> m[x]]
EmptyMap == [x \in {} |-> 0]

(***************************************************************************)
(* RingBuffer                                                              *)
(***************************************************************************)
\* new Array(capacity) has no slot written: buf is a map of the written slots
RB_New(capacity) == [buf |-> EmptyMap, head |-> 0, size |-> 0, capacity |-> capacity]

\* the bug of overwriting the oldest slot of a full buffer and leaving the
\* head on it
RB_push_NoAdvance(rb, item) ==
  IF rb.size < rb.capacity
  THEN [rb EXCEPT !.buf = MapSet(@, (rb.head + rb.size) % rb.capacity, item),
                  !.size = @ + 1]
  ELSE [rb EXCEPT !.buf = MapSet(@, rb.head, item)]

\* the bug of advancing the head without wrapping it
RB_push_NoWrap(rb, item) ==
  IF rb.size < rb.capacity
  THEN [rb EXCEPT !.buf = MapSet(@, (rb.head + rb.size) % rb.capacity, item),
                  !.size = @ + 1]
  ELSE [rb EXCEPT !.buf = MapSet(@, rb.head, item),
                  !.head = @ + 1]

RB_push(rb, item) ==
  IF rb.size < rb.capacity
  THEN [rb EXCEPT !.buf = MapSet(@, (rb.head + rb.size) % rb.capacity, item),
                  !.size = @ + 1]
  ELSE [rb EXCEPT !.buf = MapSet(@, rb.head, item),
                  !.head = (@ + 1) % rb.capacity]

RB_toArray(rb) == [i \in 1 .. rb.size |-> rb.buf[(rb.head + (i - 1)) % rb.capacity]]

\* the bug of resetting the head and leaving the size
RB_clear_KeepSize(rb) == [rb EXCEPT !.head = 0]

RB_clear(rb) == [rb EXCEPT !.head = 0, !.size = 0]

\* no buffer: what a constructor that throws leaves its caller with
NoRing == [buf |-> EmptyMap, head |-> 0, size |-> 0, capacity |-> 0]

\* the bug of a constructor that accepts every capacity
RB_constructor_NoCheck(capacity) ==
  [rb |-> RB_New(capacity), outcome |-> "constructed"]

\* new RingBuffer(capacity): the throw leaves the caller without a buffer
RB_constructor(capacity) ==
  IF capacity < 1
  THEN [rb |-> NoRing, outcome |-> "RangeError"]
  ELSE [rb |-> RB_New(capacity), outcome |-> "constructed"]

(***************************************************************************)
(* Messages and events                                                     *)
(***************************************************************************)
\* a message is its template text and the value interpolated into it
NoError == [text |-> "", arg |-> 0, code |-> ""]
ExitMessage(code) == [text |-> "Process exited with code ", arg |-> code, code |-> ""]

\* the bug of a case label that does not fall through to the next
classifyError_NoFallthrough(errno) ==
  CASE errno = "ENOENT" -> "EXECUTABLE_MISSING"
    [] errno = "EPERM" -> "PERMISSION_DENIED"
    [] errno = "EMFILE" -> "SPAWN_FAILURE"
    [] OTHER -> "UNKNOWN"

classifyError(errno) ==
  CASE errno = "ENOENT" -> "EXECUTABLE_MISSING"
    [] errno \in {"EACCES", "EPERM"} -> "PERMISSION_DENIED"
    [] errno \in {"EAGAIN", "EMFILE"} -> "SPAWN_FAILURE"
    [] OTHER -> "UNKNOWN"

\* SpawnError {projectId, code, message}: err.message is kept as the errno
makeSpawnError(projectId, errno) ==
  [text |-> errno, arg |-> 0, code |-> classifyError(errno)]

\* src is the pid whose handler emitted the event (the payload's pid is null
\* in the stopped and error events)
StateEvent(projectId, pid, status, error, src) ==
  [channel |-> "process-state", projectId |-> projectId, pid |-> pid,
   status |-> status, error |-> error, src |-> src]

LogEvent(entry) ==
  [channel |-> "process-log", projectId |-> entry.projectId, pid |-> entry.pid,
   data |-> entry.data, type |-> entry.type, src |-> entry.pid]

Emit(s, event) == [s EXCEPT !.emitted = Append(@, event)]

(***************************************************************************)
(* Log buffer helpers                                                      *)
(***************************************************************************)
ensureLogBuffer(s, pid) ==
  IF MapHas(s.logBuffers, pid) THEN s
  ELSE [s EXCEPT !.logBuffers = MapSet(@, pid, RB_New(LOG_BUFFER_SIZE))]

\* the bug of storing the entry in a buffer made for it
emitLog_NewBuffer(s, pid, projectId, data, type) ==
  LET entry == [projectId |-> projectId, pid |-> pid, data |-> data, type |-> type]
      s1 == [s EXCEPT !.logBuffers = MapSet(@, pid, RB_New(LOG_BUFFER_SIZE))]
      s2 == [s1 EXCEPT !.logBuffers[pid] = RB_push(@, entry)]
  IN  Emit(s2, LogEvent(entry))

emitLog(s, pid, projectId, data, type) ==
  LET entry == [projectId |-> projectId, pid |-> pid, data |-> data, type |-> type]
      s1 == ensureLogBuffer(s, pid)
      s2 == [s1 EXCEPT !.logBuffers[pid] = RB_push(@, entry)]
  IN  Emit(s2, LogEvent(entry))

getLogsForPid(s, pid) ==
  IF MapHas(s.logBuffers, pid) THEN RB_toArray(s.logBuffers[pid]) ELSE <<>>

\* the bug of reading the buffer through ensureLogBuffer
getLogsForPidCall_Ensure(s, pid) ==
  LET s1 == ensureLogBuffer(s, pid)
  IN  [s |-> s1, value |-> RB_toArray(s1.logBuffers[pid])]

\* a call of getLogsForPid: the maps after it and the array it returns
getLogsForPidCall(s, pid) == [s |-> s, value |-> getLogsForPid(s, pid)]

\* data.toString() of a chunk of output: the n-th chunk of the output a
\* process had written when the behaviour begins, or (0) a chunk written since
DataMessage(n) == [text |-> "output", arg |-> n, code |-> ""]

\* the 'data' handlers of stdout and stderr, of runCommand and runRawCommand
dataHandler(s, pid, projectId, n, type) ==
  emitLog(s, pid, projectId, DataMessage(n), type)

\* no query has returned yet
NoReturn == [call |-> "", arg |-> 0, value |-> <<>>]

\* the ProcessState getStatus returns; pid 0 is null
ProcessState(pid, status) == [pid |-> pid, status |-> status]

\* the bug of reporting the status of the last entry the registry holds for the
\* project, indexed or not
getStatus_LastEntry(s, projectId) ==
  LET own == {pid \in DOMAIN s.registry : s.registry[pid].projectId = projectId}
  IN  IF own = {} THEN ProcessState(0, "stopped")
      ELSE LET pid == CHOOSE x \in own : \A y \in own : y <= x
           IN  ProcessState(IF s.registry[pid].status = "running" THEN pid ELSE 0,
                            s.registry[pid].status)

getStatus(s, projectId) ==
  IF ~MapHas(s.projectIndex, projectId) THEN ProcessState(0, "stopped")
  ELSE LET pid == s.projectIndex[projectId]
       IN  IF ~MapHas(s.registry, pid) THEN ProcessState(0, "stopped")
           ELSE ProcessState(pid, s.registry[pid].status)

\* a call of getStatus: the maps after it and the state it returns
getStatusCall(s, projectId) == [s |-> s, value |-> getStatus(s, projectId)]

(***************************************************************************)
(* Stop                                                                    *)
(***************************************************************************)
SetStatus(reg, pid, status) ==
  IF MapHas(reg, pid) THEN [reg EXCEPT ![pid].status = status] ELSE reg

\* what spawn('taskkill', ...) does: the taskkill starts, or it cannot be
\* started.  The runtime reports a failed start on the next tick, before any
\* other callback runs: to the 'error' handlers and then, with the negative
\* errno as the code, to the 'close' handlers of the killer.
KillerOutcomes == {"started", "failed"}

\* try { process.kill(pid, 'SIGKILL') } catch { }: one more direct signal to
\* pid; a signal that fails (the process is gone) throws, and the catch
\* swallows it
directSignal(s, pid) == [s EXCEPT !.sent = Append(@, pid)]

\* spawn('taskkill', ...): a tree-kill is issued for pid; atKill records what
\* the maps say about pid, and what has been emitted, at that moment.  The
\* 'error' handler of the killer sends the direct signal.
spawnKill(s, pid) ==
  LET s1 == [s EXCEPT !.atKill = Append(@, [pid |-> pid,
                                  status |-> IF MapHas(s.registry, pid)
                                             THEN s.registry[pid].status ELSE "",
                                  indexed |-> \E p \in DOMAIN s.projectIndex :
                                                 s.projectIndex[p] = pid,
                                  handle |-> pid \in s.processHandles,
                                  emitted |-> s.emitted])]
  IN  IF s.taskkill = "failed" THEN directSignal(s1, pid) ELSE s1

\* the bug of issuing the kill first and updating the maps after it
stopCommand_KillFirst(s, projectId) ==
  IF ~MapHas(s.projectIndex, projectId) THEN s
  ELSE LET pid == s.projectIndex[projectId]
           s1 == spawnKill(s, pid)
           s2 == [s1 EXCEPT !.registry = SetStatus(@, pid, "stopped")]
           s3 == [s2 EXCEPT !.projectIndex = MapDelete(@, projectId),
                            !.processHandles = @ \ {pid}]
       IN  Emit(s3, StateEvent(projectId, 0, "stopped", NoError, pid))

\* the bug of emitting the 'stopped' state before looking for an active pid
stopCommand_EmitAlways(s, projectId) ==
  IF ~MapHas(s.projectIndex, projectId)
  THEN Emit(s, StateEvent(projectId, 0, "stopped", NoError, 0))
  ELSE LET pid == s.projectIndex[projectId]
           s1 == [s EXCEPT !.registry = SetStatus(@, pid, "stopped")]
           s2 == [s1 EXCEPT !.projectIndex = MapDelete(@, projectId),
                            !.processHandles = @ \ {pid}]
           s3 == spawnKill(s2, pid)
       IN  Emit(s3, StateEvent(projectId, 0, "stopped", NoError, pid))

\* the bug of taking the pid of the project from the registry (its first
\* entry of the project), not from the project index
stopCommand_ByRegistry(s, projectId) ==
  LET pids == {q \in DOMAIN s.registry : s.registry[q].projectId = projectId}
  IN  IF pids = {} THEN s
      ELSE LET pid == CHOOSE q \in pids : \A r \in pids : q <= r
               s1 == [s EXCEPT !.registry = SetStatus(@, pid, "stopped")]
               s2 == [s1 EXCEPT !.projectIndex = MapDelete(@, projectId),
                                !.processHandles = @ \ {pid}]
               s3 == spawnKill(s2, pid)
           IN  Emit(s3, StateEvent(projectId, 0, "stopped", NoError, pid))

stopCommand(s, projectId) ==
  IF ~MapHas(s.projectIndex, projectId) THEN s
  ELSE LET pid == s.projectIndex[projectId]
           s1 == [s EXCEPT !.registry = SetStatus(@, pid, "stopped")]
           s2 == [s1 EXCEPT !.projectIndex = MapDelete(@, projectId),
                            !.processHandles = @ \ {pid}]
           s3 == spawnKill(s2, pid)
       IN  Emit(s3, StateEvent(projectId, 0, "stopped", NoError, pid))

(***************************************************************************)
(* Exit and error handlers wired by runCommand                             *)
(***************************************************************************)
\* the bug of testing only that the project has no active pid
manualKilled_NoPidCompare(s, pid, projectId) == ~MapHas(s.projectIndex, projectId)

\* projectIndex.get(projectId) !== pid
manualKilled(s, pid, projectId) ==
  ~(MapHas(s.projectIndex, projectId) /\ s.projectIndex[projectId] = pid)

\* the bug of reporting every caller-initiated exit as clean and every
\* spontaneous one as failed
finalStatus_IgnoreCode(code, manual) == IF manual THEN "stopped" ELSE "error"

finalStatus(code, manual) == IF code = 0 \/ manual THEN "stopped" ELSE "error"

exitHandler(s, pid, projectId, code) ==
  LET manual == manualKilled(s, pid, projectId)
      final == finalStatus(code, manual)
      s1 == [s EXCEPT !.registry = SetStatus(@, pid, final)]
      s2 == IF ~manual
            THEN [s1 EXCEPT !.projectIndex = MapDelete(@, projectId)]
            ELSE s1
      s3 == [s2 EXCEPT !.processHandles = @ \ {pid}]
      s4 == Emit(s3, StateEvent(projectId, 0, final,
                                IF final = "error" THEN ExitMessage(code) ELSE NoError,
                                pid))
  IN  emitLog(s4, pid, projectId, ExitMessage(code),
              IF code = 0 THEN "stdout" ELSE "stderr")

errorHandler(s, pid, projectId, errno) ==
  LET s1 == [s EXCEPT !.registry = SetStatus(@, pid, "error")]
      s2 == IF MapHas(s1.projectIndex, projectId) /\ s1.projectIndex[projectId] = pid
            THEN [s1 EXCEPT !.projectIndex = MapDelete(@, projectId)]
            ELSE s1
      s3 == [s2 EXCEPT !.processHandles = @ \ {pid}]
      spawnErr == makeSpawnError(projectId, errno)
      s4 == Emit(s3, StateEvent(projectId, 0, "error", spawnErr, pid))
  IN  emitLog(s4, pid, projectId,
              [text |-> "Process error ", arg |-> 0, code |-> spawnErr.code],
              "stderr")

(***************************************************************************)
(* Exit and error handlers wired by runRawCommand                          *)
(***************************************************************************)
rawExitStatus(s, pid, projectId, code) == IF code = 0 THEN "stopped" ELSE "error"

rawExitHandler(s, pid, projectId, code) ==
  LET s1 == [s EXCEPT !.registry = SetStatus(@, pid, rawExitStatus(s, pid, projectId, code))]
      s2 == IF MapHas(s1.projectIndex, projectId) /\ s1.projectIndex[projectId] = pid
            THEN [s1 EXCEPT !.projectIndex = MapDelete(@, projectId)]
            ELSE s1
      s3 == [s2 EXCEPT !.processHandles = @ \ {pid}]
  IN  emitLog(s3, pid, projectId, ExitMessage(code),
              IF code = 0 THEN "stdout" ELSE "stderr")

rawErrorHandler(s, pid, projectId, errno) ==
  LET s1 == [s EXCEPT !.registry = SetStatus(@, pid, "error")]
      s2 == IF MapHas(s1.projectIndex, projectId) /\ s1.projectIndex[projectId] = pid
            THEN [s1 EXCEPT !.projectIndex = MapDelete(@, projectId)]
            ELSE s1
      s3 == [s2 EXCEPT !.processHandles = @ \ {pid}]
  IN  emitLog(s3, pid, projectId,
              [text |-> "Process error ", arg |-> 0, code |-> classifyError(errno)],
              "stderr")

(***************************************************************************)
(* Run                                                                     *)
(***************************************************************************)
\* what spawn() does: returns a child with a pid, returns a child without
\* one, or throws with an errno
SpawnOutcomes ==
  {[kind |-> "ok", errno |-> ""], [kind |-> "nopid", errno |-> ""]}
    \cup {[kind |-> "throw", errno |-> e] : e \in ErrnoCodes}

\* the settings and the project folder as runCommand finds them: whether the
\* engine path of the type is configured and exists, whether the folder holds
\* a .uproject file, and what spawn() does.  What a branch does not read is
\* fixed.
Env(path, uproject, spawn) == [path |-> path, uproject |-> uproject, spawn |-> spawn]

Spawned == [kind |-> "ok", errno |-> ""]

EnvsFor(type) ==
  CASE type = "unity" -> {Env(FALSE, TRUE, Spawned), Env(TRUE, TRUE, Spawned)}
    [] type = "unreal" -> {Env(FALSE, TRUE, Spawned), Env(TRUE, FALSE, Spawned),
                           Env(TRUE, TRUE, Spawned)}
    [] OTHER -> {Env(TRUE, TRUE, o) : o \in SpawnOutcomes}

\* [execPath, ...args].join(' '): the text of the command line is not modelled
CommandStr(type) == "execPath args"

\* what the maps and the trace were when spawn() was called
NoSpawn == [called |-> FALSE, registry |-> EmptyMap, projectIndex |-> EmptyMap,
            atKill |-> <<>>]

SpawnView(s) == [called |-> TRUE, registry |-> s.registry,
                 projectIndex |-> s.projectIndex, atKill |-> s.atKill]

Failed(s, view, code) ==
  [s |-> s, result |-> "error", error |-> code, atSpawn |-> view]

\* the bug of leaving projectIndex.set out
register_NoIndex(s, pid, projectId, command) ==
  LET s1 == [s EXCEPT !.registry = MapSet(@, pid, [pid |-> pid, projectId |-> projectId,
                                                   command |-> command,
                                                   status |-> "running"]),
                      !.processHandles = @ \cup {pid}]
      s2 == ensureLogBuffer(s1, pid)
  IN  [s2 EXCEPT !.logBuffers[pid] = RB_clear(@)]

\* registry.set, projectIndex.set, processHandles.set, ensureLogBuffer(pid).clear()
register(s, pid, projectId, command) ==
  LET s1 == [s EXCEPT !.registry = MapSet(@, pid, [pid |-> pid, projectId |-> projectId,
                                                   command |-> command,
                                                   status |-> "running"]),
                      !.projectIndex = MapSet(@, projectId, pid),
                      !.processHandles = @ \cup {pid}]
      s2 == ensureLogBuffer(s1, pid)
  IN  [s2 EXCEPT !.logBuffers[pid] = RB_clear(@)]

\* the OS process is created by spawn(): from then on the maps are those of s1
runCommand(s, projectId, type, env, pid) ==
  LET s1 == stopCommand(s, projectId)
  IN  IF type = "unity" /\ ~env.path
        THEN Failed(s1, NoSpawn, "EXECUTABLE_MISSING")
      ELSE IF type = "unreal" /\ ~env.path
        THEN Failed(s1, NoSpawn, "EXECUTABLE_MISSING")
      ELSE IF type = "unreal" /\ ~env.uproject
        THEN Failed(s1, NoSpawn, "SCRIPT_ERROR")
      ELSE IF env.spawn.kind = "throw"
        THEN Failed(s1, SpawnView(s1), makeSpawnError(projectId, env.spawn.errno).code)
      ELSE IF env.spawn.kind = "nopid"
        THEN Failed(s1, SpawnView(s1), "SPAWN_FAILURE")
      ELSE LET s2 == register(s1, pid, projectId, CommandStr(type))
           IN  [s |-> Emit(s2, StateEvent(projectId, pid, "running", NoError, pid)),
                result |-> "pid", error |-> "", atSpawn |-> SpawnView(s1)]

runRawCommand(s, projectId, spawned, pid) ==
  LET s1 == stopCommand(s, projectId)
  IN  IF spawned.kind = "throw"
        THEN Failed(s1, SpawnView(s1), makeSpawnError(projectId, spawned.errno).code)
      ELSE IF spawned.kind = "nopid"
        THEN Failed(s1, SpawnView(s1), "SPAWN_FAILURE")
      ELSE [s |-> register(s1, pid, projectId, "execPath args"),
            result |-> "pid", error |-> "", atSpawn |-> SpawnView(s1)]

(***************************************************************************)
(* killProcessByPid: the close and error handlers of its taskkill          *)
(***************************************************************************)
\* the bug of marking the entry stopped and leaving the index alone
reconcile_KeepIndex(s, pid) ==
  [s EXCEPT !.registry = SetStatus(@, pid, "stopped"), !.processHandles = @ \ {pid}]

\* the bug of recording the pid as stopped without testing that it is managed
reconcile_Upsert(s, pid) ==
  IF MapHas(s.registry, pid)
  THEN [s EXCEPT !.projectIndex = MapDelete(@, s.registry[pid].projectId),
                 !.processHandles = @ \ {pid},
                 !.registry = SetStatus(@, pid, "stopped")]
  ELSE [s EXCEPT !.registry = MapSet(@, pid, [pid |-> pid, projectId |-> "",
                                              command |-> "", status |-> "stopped"])]

\* the reconcile step of the close handler
reconcile(s, pid) ==
  IF MapHas(s.registry, pid)
  THEN LET entry == s.registry[pid]
           s1 == [s EXCEPT !.projectIndex = MapDelete(@, entry.projectId),
                           !.processHandles = @ \ {pid}]
       IN  [s1 EXCEPT !.registry = SetStatus(@, pid, "stopped")]
  ELSE s

\* resolve()
resolve(s) == [s EXCEPT !.resolved = TRUE]

\* the bug of reconciling only when the taskkill succeeded
killerClose_OnSuccessOnly(s, pid, code) ==
  resolve(IF code # 0 THEN directSignal(s, pid) ELSE reconcile(s, pid))

killerClose(s, pid, code) ==
  resolve(reconcile(IF code # 0 THEN directSignal(s, pid) ELSE s, pid))

killerError(s, pid) == resolve(directSignal(s, pid))

\* the taskkill of killProcessByPid cannot be started: the runtime calls the
\* 'error' handler and then the 'close' handler, with the negative errno as
\* the code
killerFailed(s, pid) == killerClose(killerError(s, pid), pid, -1)

(***************************************************************************)
(* Monitor                                                                 *)
(***************************************************************************)
\* the values MONITOR_INTERVAL_MS is given: the one of the source, the floor
\* and a value below the floor
PollIntervals ==
  {MIN_MONITOR_INTERVAL_MS - 1, MIN_MONITOR_INTERVAL_MS, MONITOR_INTERVAL_MS}

\* the bug of installing the timer before testing the interval
startMonitoring_LateCheck(m, interval) ==
  IF m.monitoringInterval # "null" THEN [m |-> m, outcome |-> "kept"]
  ELSE LET m1 == [m EXCEPT !.monitoringInterval = "timer", !.timers = @ + 1]
       IN  IF interval < MIN_MONITOR_INTERVAL_MS
           THEN [m |-> m1, outcome |-> "Error"]
           ELSE [m |-> m1, outcome |-> "installed"]

\* the bug of installing a timer at every call
startMonitoring_NoGuard(m, interval) ==
  IF interval < MIN_MONITOR_INTERVAL_MS THEN [m |-> m, outcome |-> "Error"]
  ELSE [m |-> [m EXCEPT !.monitoringInterval = "timer", !.timers = @ + 1],
        outcome |-> "installed"]

\* m is monitoringInterval and the number of interval timers the runtime
\* holds; the outcome is the path taken: the timer there is is kept, the call
\* throws, or setInterval installs a timer
startMonitoring(m, interval) ==
  IF m.monitoringInterval # "null" THEN [m |-> m, outcome |-> "kept"]
  ELSE IF interval < MIN_MONITOR_INTERVAL_MS THEN [m |-> m, outcome |-> "Error"]
  ELSE [m |-> [m EXCEPT !.monitoringInterval = "timer", !.timers = @ + 1],
        outcome |-> "installed"]

\* this.eventEmitter = emitter; this.startMonitoring().  Which function the
\* emitter is is not modelled: emitted holds the calls of the one that is set
setEventEmitter(m, interval) == startMonitoring(m, interval)

\* shutdown, its first part: clearInterval(monitoringInterval)
shutdownTimer(m) ==
  IF m.monitoringInterval # "null"
  THEN [m EXCEPT !.monitoringInterval = "null", !.timers = @ - 1]
  ELSE m

\* shutdown, its second part: stopCommand on the project of every pid that
\* Array.from(projectIndex.values()) held, in the order of the index (a
\* project is indexed when it is run, with a pid that is new: by rising pid)
RECURSIVE stopEach(_, _)
stopEach(s, pids) ==
  IF pids = {} THEN s
  ELSE LET pid == CHOOSE q \in pids : \A r \in pids : q <= r
           s1 == IF MapHas(s.registry, pid)
                 THEN stopCommand(s, s.registry[pid].projectId) ELSE s
       IN  stopEach(s1, pids \ {pid})

shutdownProcesses(s) ==
  stopEach(s, {s.projectIndex[p] : p \in DOMAIN s.projectIndex})

StatsEvent(projectId, pid) ==
  [channel |-> "process-stats", projectId |-> projectId, pid |-> pid, src |-> pid]

\* a tick callback: the last key its iterator of registry.entries() gave
\* (cursor), the pid whose pidusage it awaits (0: none), whether it has
\* returned, the pids it has warned about and those it has emitted stats for
NewTick == [cursor |-> 0, awaiting |-> 0, done |-> FALSE, warned |-> {}, stats |-> {}]

\* the first entry after cursor, in the order of the registry (by rising
\* pid), that is running, or 0
NextRunning(reg, cursor) ==
  LET later == {q \in DOMAIN reg : q > cursor /\ reg[q].status = "running"}
  IN  IF later = {} THEN 0 ELSE CHOOSE q \in later : \A r \in later : q <= r

\* the for loop goes on, skipping the entries that are not running, up to
\* the next await or to its end
scan(tick, reg) ==
  LET q == NextRunning(reg, tick.cursor)
  IN  IF q = 0 THEN [tick EXCEPT !.awaiting = 0, !.done = TRUE]
      ELSE [tick EXCEPT !.awaiting = q, !.cursor = q]

\* the timer fires: the callback returns if the registry is empty, and it
\* runs up to its first await if not
tickStart(s) ==
  IF DOMAIN s.registry = {} THEN [NewTick EXCEPT !.done = TRUE]
  ELSE scan(NewTick, s.registry)

\* the bug of a try that encloses the loop: a sample that fails ends the tick
sampleDone_TryAroundLoop(s, tick, ok) ==
  LET pid == tick.awaiting
  IN  IF ok
      THEN [s |-> Emit(s, StatsEvent(s.registry[pid].projectId, pid)),
            tick |-> scan([tick EXCEPT !.stats = @ \cup {pid}], s.registry)]
      ELSE [s |-> s,
            tick |-> [tick EXCEPT !.warned = @ \cup {pid}, !.awaiting = 0, !.done = TRUE]]

\* pidusage(pid) settles: the callback emits the stats, or warns, and goes on
sampleDone(s, tick, ok) ==
  LET pid == tick.awaiting
  IN  IF ok
      THEN [s |-> Emit(s, StatsEvent(s.registry[pid].projectId, pid)),
            tick |-> scan([tick EXCEPT !.stats = @ \cup {pid}], s.registry)]
      ELSE [s |-> s,
            tick |-> scan([tick EXCEPT !.warned = @ \cup {pid}], s.registry)]

(***************************************************************************)
(* ProfileService                                                          *)
(***************************************************************************)
\* the profiles in the store, and the ids a caller may pass
Profiles == {"P"}
ProfileIds == Profiles \cup {"X"}

\* profile.projectId and profile.commands.length of a stored profile
ProfileProject(profileId) == "A"
ProfileCommands(profileId) == MaxCommands

\* runningProfiles.get(profileId) as a condition: undefined and false fail it
Truthy(running, profileId) == MapHas(running, profileId) /\ running[profileId]

\* finally { this.runningProfiles.delete(profileId) }
finallyDelete(q, profileId) == [q EXCEPT !.running = MapDelete(@, profileId)]

Settled(q, outcome) == [q |-> q, outcome |-> outcome, result |-> "none"]

\* the for loop of runProfile from its command number from, up to the next
\* await or to the end of the call: q holds the process maps (s) and
\* runningProfiles (running).  The executor of runRawCommandAsync calls
\* runRawCommand at once and rejects at once when it returns an error.
runLoop(q, profileId, from, spawned, pid) ==
  IF from > ProfileCommands(profileId) \/ ~Truthy(q.running, profileId)
  THEN Settled(finallyDelete(q, profileId), "resolved")
  ELSE LET r == runRawCommand(q.s, ProfileProject(profileId), spawned, pid)
           q1 == [q EXCEPT !.s = r.s]
       IN  IF r.result = "error"
           THEN Settled(finallyDelete(q1, profileId), "rejected")
           ELSE [q |-> q1, outcome |-> "awaiting", result |-> "pid"]

\* runProfile(profileId) up to its first await or to the end of the call
runProfile(q, profileId, spawned, pid) ==
  IF profileId \notin Profiles THEN Settled(q, "Profile not found")
  ELSE IF Truthy(q.running, profileId) THEN Settled(q, "Profile is already running")
  ELSE runLoop([q EXCEPT !.running = MapSet(@, profileId, TRUE)],
               profileId, 1, spawned, pid)

stopProfile(q, profileId) ==
  IF profileId \in Profiles
  THEN [q EXCEPT !.running = MapSet(@, profileId, FALSE),
                 !.s = stopCommand(@, ProfileProject(profileId))]
  ELSE q

\* the 'exit' listener of runRawCommandAsync and the continuation of the
\* execution that awaits it: the next command after code 0, the rethrown
\* rejection otherwise
awaitExit(q, execution, code, spawned, pid) ==
  IF code = 0
  THEN runLoop(q, execution.profileId, execution.cmd + 1, spawned, pid)
  ELSE Settled(finallyDelete(q, execution.profileId), "rejected")

\* the 'error' listener of runRawCommandAsync and the continuation
awaitError(q, execution) ==
  Settled(finallyDelete(q, execution.profileId), "rejected")

(***************************************************************************)
(* Process tree                                                            *)
(***************************************************************************)
\* a field of a line of the wmic output, as parseInt(field, 10) reads it: a
\* number, or NaN
Num(n) == [nan |-> FALSE, val |-> n]
Word == [nan |-> TRUE, val |-> 0]

\* line.trim().split(/\s+/) of the header, of a row of the table, of a row
\* with a field too many, and of an empty line (one empty field)
HeaderLine == <<Word, Word>>
RowLine(parentPid, processId) == <<Num(parentPid), Num(processId)>>
LongLine == <<Num(1), Num(2), Num(3)>>
EmptyLine == <<Word>>

\* the body of the loop over the lines: tree.set(processId, parentPid) for a
\* line of two numbers
parseLine(tree, parts) ==
  IF Len(parts) = 2 /\ ~parts[1].nan /\ ~parts[2].nan
  THEN MapSet(tree, parts[2].val, parts[1].val)
  ELSE tree

RECURSIVE parseLines(_, _, _)
parseLines(tree, lines, i) ==
  IF i > Len(lines) THEN tree
  ELSE parseLines(parseLine(tree, lines[i]), lines, i + 1)

\* the map getProcessTree resolves with when wmic closes after writing the
\* lines of output
getProcessTree(output) == parseLines(EmptyMap, output, 1)

\* the process tables: every pid has a parent among the pids or none listed
\* (an incomplete table), the parent of the idle process being itself; cycles
\* and self-parented pids are among them
Tables ==
  {[x \in {y \in TreePids : f[y] # -1} |-> f[x]] :
     f \in {g \in [TreePids -> TreePids \cup {-1}] : g[0] \in {0, -1}}}

RECURSIVE RowsFrom(_, _)
RowsFrom(table, pid) ==
  IF pid > MaxTreePid THEN <<>>
  ELSE (IF MapHas(table, pid) THEN <<RowLine(table[pid], pid)>> ELSE <<>>)
         \o RowsFrom(table, pid + 1)

\* what wmic writes for a table: the header, a row per process, a row that is
\* not a pair, an empty last line
WmicOutput(table) == <<HeaderLine>> \o RowsFrom(table, 0) \o <<LongLine, EmptyLine>>

\* the loop of isDescendantInTree runs at most once per nonzero pid of the
\* table, and once more to find the pid visited: a walk that has not ended
\* after WalkFuel turns does not end
WalkFuel == MaxTreePid + 2

\* the bug of walking without the visited set
RECURSIVE walk_NoVisited(_, _, _, _, _)
walk_NoVisited(rootPid, current, visited, tree, fuel) ==
  IF fuel = 0 THEN [found |-> FALSE, done |-> FALSE]
  ELSE IF current = 0 THEN [found |-> FALSE, done |-> TRUE]
  ELSE IF ~MapHas(tree, current) THEN [found |-> FALSE, done |-> TRUE]
  ELSE IF tree[current] = rootPid THEN [found |-> TRUE, done |-> TRUE]
  ELSE walk_NoVisited(rootPid, tree[current], visited, tree, fuel - 1)

\* the bug of testing the direct parent only
walk_DirectOnly(rootPid, current, visited, tree, fuel) ==
  [found |-> current # 0 /\ MapHas(tree, current) /\ tree[current] = rootPid,
   done |-> TRUE]

\* while (current && !visited.has(current)) { ... }: found is what the
\* function returns, done that it returned
RECURSIVE walk(_, _, _, _, _)
walk(rootPid, current, visited, tree, fuel) ==
  IF fuel = 0 THEN [found |-> FALSE, done |-> FALSE]
  ELSE IF current = 0 \/ current \in visited THEN [found |-> FALSE, done |-> TRUE]
  ELSE IF ~MapHas(tree, current) THEN [found |-> FALSE, done |-> TRUE]
  ELSE IF tree[current] = rootPid THEN [found |-> TRUE, done |-> TRUE]
  ELSE walk(rootPid, tree[current], visited \cup {current}, tree, fuel - 1)

isDescendantInTree(rootPid, targetPid, tree) ==
  IF rootPid = targetPid THEN [found |-> TRUE, done |-> TRUE]
  ELSE walk(rootPid, targetPid, {}, tree, WalkFuel)

\* return undefined
NoMatch == ""

\* for (const [pid, entry] of registry.entries()): the entries in the order
\* of their insertion, which is the order of the pids
RECURSIVE scanRegistry(_, _, _, _)
scanRegistry(reg, pid, targetPid, tree) ==
  IF \A q \in DOMAIN reg : q < pid THEN NoMatch
  ELSE IF MapHas(reg, pid) /\ isDescendantInTree(pid, targetPid, tree).found
    THEN reg[pid].projectId
  ELSE scanRegistry(reg, pid + 1, targetPid, tree)

\* no identifyProjectIdFromPid called yet
NoLookup == [phase |-> "idle", target |-> 0, tree |-> EmptyMap, failed |-> FALSE,
             result |-> NoMatch, queries |-> 0]

\* the bug of building the tree again for every tracked root
identifyStart_QueryPerRoot(reg, targetPid) ==
  IF MapHas(reg, targetPid)
  THEN [NoLookup EXCEPT !.phase = "done", !.target = targetPid,
                        !.result = reg[targetPid].projectId]
  ELSE [NoLookup EXCEPT !.phase = "waiting", !.target = targetPid,
                        !.queries = Cardinality(DOMAIN reg) + 1]

\* identifyProjectIdFromPid up to its await: the direct registry hit, or one
\* getProcessTree() to wait for
identifyStart(reg, targetPid) ==
  IF MapHas(reg, targetPid)
  THEN [NoLookup EXCEPT !.phase = "done", !.target = targetPid,
                        !.result = reg[targetPid].projectId]
  ELSE [NoLookup EXCEPT !.phase = "waiting", !.target = targetPid, !.queries = 1]

\* identifyProjectIdFromPid after its await, with the registry of that moment
identifyResume(call, reg, tree, failed) ==
  [call EXCEPT !.phase = "done", !.tree = tree, !.failed = failed,
               !.result = scanRegistry(reg, 1, call.target, tree)]

(***************************************************************************)
(* Actions                                                                 *)
(***************************************************************************)
\* the maps as a handler finds them, nothing emitted yet, and what the
\* taskkill it may spawn does (k)
CurK(k) == [registry |-> registry, projectIndex |-> projectIndex,
            processHandles |-> processHandles, logBuffers |-> logBuffers,
            emitted |-> <<>>, atKill |-> <<>>, sent |-> <<>>, resolved |-> FALSE,
            taskkill |-> k]

\* the same, when every taskkill the handler spawns starts.  A taskkill that
\* cannot be started adds a direct signal to the trace of the handler and
\* changes nothing else: the maps and the events of a step are those of Cur
\* for both outcomes, and the actions are written with Cur.
Cur == CurK("started")

Commit(s) ==
  /\ registry' = s.registry
  /\ projectIndex' = s.projectIndex
  /\ processHandles' = s.processHandles
  /\ logBuffers' = s.logBuffers
  /\ emitted' = s.emitted

\* the pids the stopCommand inside the step acted on
Stopped(s) == {s.atKill[i].pid : i \in DOMAIN s.atKill}

\* the module is loaded: the maps are empty
InitMaps ==
  /\ registry = EmptyMap
  /\ projectIndex = EmptyMap
  /\ processHandles = {}
  /\ logBuffers = EmptyMap
  /\ children = EmptyMap
  /\ killers = {}
  /\ stopPending = {}
  /\ nextPid = 1
  /\ emitted = <<>>
  /\ asyncErrored = {}
  /\ lookup = NoLookup
  /\ returned = NoReturn

\* the monitor left out: no timer, no tick, the interval of the source
InitMonitorOff ==
  /\ monitoringInterval = "null"
  /\ timers = 0
  /\ ticks = <<>>
  /\ pollInterval = MONITOR_INTERVAL_MS

\* no RingBuffer besides those of the log buffers
InitRingOff == ring = NoRing /\ pushed = <<>>

\* ProfileService is loaded: no profile runs
InitProfilesOff == runningProfiles = EmptyMap /\ executions = {}

Init == InitMaps /\ InitMonitorOff /\ InitRingOff /\ InitProfilesOff

\* a run that creates a process: the child is alive, with the handlers of
\* runCommand ("cmd") or of runRawCommand ("raw") wired to it, until its exit
\* is reported
Started(r, kind, projectId) ==
  IF r.result = "pid"
  THEN /\ children' = MapSet(children, nextPid,
                             [kind |-> kind, projectId |-> projectId])
       /\ nextPid' = nextPid + 1
  ELSE UNCHANGED <<children, nextPid>>

RunCommand(projectId, type, env) ==
  LET r == runCommand(Cur, projectId, type, env, nextPid)
  IN  /\ Commit(r.s)
      /\ Started(r, "cmd", projectId)
      /\ stopPending' = stopPending \cup Stopped(r.s)
      /\ UNCHANGED <<killers, asyncErrored, lookup, otherVars>>

RunRawCommand(projectId, spawned) ==
  LET r == runRawCommand(Cur, projectId, spawned, nextPid)
  IN  /\ Commit(r.s)
      /\ Started(r, "raw", projectId)
      /\ stopPending' = stopPending \cup Stopped(r.s)
      /\ UNCHANGED <<killers, asyncErrored, lookup, otherVars>>

StopCommand(projectId) ==
  LET s == stopCommand(Cur, projectId)
  IN  /\ Commit(s)
      /\ stopPending' = stopPending \cup Stopped(s)
      /\ UNCHANGED <<children, killers, nextPid, asyncErrored, lookup, otherVars>>

\* the OS reports the exit of a child, by itself or killed, with any code
ChildExit(pid, code) ==
  /\ MapHas(children, pid)
  /\ Commit(IF children[pid].kind = "cmd"
            THEN exitHandler(Cur, pid, children[pid].projectId, code)
            ELSE rawExitHandler(Cur, pid, children[pid].projectId, code))
  /\ children' = MapDelete(children, pid)
  /\ stopPending' = stopPending \ {pid}
  /\ asyncErrored' = asyncErrored \ {pid}
  /\ UNCHANGED <<killers, nextPid, lookup, otherVars>>

\* a live child reports an error (at most once per child)
ChildError(pid, errno) ==
  /\ MapHas(children, pid)
  /\ pid \notin asyncErrored
  /\ Commit(IF children[pid].kind = "cmd"
            THEN errorHandler(Cur, pid, children[pid].projectId, errno)
            ELSE rawErrorHandler(Cur, pid, children[pid].projectId, errno))
  /\ asyncErrored' = asyncErrored \cup {pid}
  /\ UNCHANGED <<children, killers, nextPid, stopPending, lookup, otherVars>>

\* pid is the running process the project index holds for its project
Tracked(pid) ==
  /\ MapHas(registry, pid)
  /\ registry[pid].status = "running"
  /\ MapHas(projectIndex, registry[pid].projectId)
  /\ projectIndex[registry[pid].projectId] = pid

\* killProcessByPid(pid), on the pid of a process the engine started or on a
\* foreign pid: starts a taskkill and returns its promise
KillProcessByPid(pid) ==
  /\ pid < nextPid \/ pid \in ForeignPids
  /\ pid \notin killers
  /\ Cardinality(killers) < MaxPendingKills
  /\ killers' = killers \cup {pid}
  /\ Commit(Cur)
  /\ UNCHANGED <<children, nextPid, stopPending, asyncErrored, lookup, otherVars>>

\* the taskkill closes with an exit code
KillerClose(pid, code) ==
  /\ pid \in killers
  /\ killers' = killers \ {pid}
  /\ Commit(killerClose(Cur, pid, code))
  /\ UNCHANGED <<children, nextPid, stopPending, asyncErrored, lookup, otherVars>>

\* the taskkill could not be started
KillerError(pid) ==
  /\ pid \in killers
  /\ killers' = killers \ {pid}
  /\ Commit(killerFailed(Cur, pid))
  /\ UNCHANGED <<children, nextPid, stopPending, asyncErrored, lookup, otherVars>>

\* identifyProjectIdFromPid(targetPid) is called (one call at a time)
Identify(targetPid) ==
  /\ lookup.phase # "waiting"
  /\ lookup' = identifyStart(registry, targetPid)
  /\ UNCHANGED <<registry, projectIndex, processHandles, logBuffers, children,
                 killers, stopPending, nextPid, emitted, asyncErrored, otherVars>>

\* wmic closes, having written the table
TreeClose(table) ==
  /\ lookup.phase = "waiting"
  /\ lookup' = identifyResume(lookup, registry, getProcessTree(WmicOutput(table)), FALSE)
  /\ UNCHANGED <<registry, projectIndex, processHandles, logBuffers, children,
                 killers, stopPending, nextPid, emitted, asyncErrored, otherVars>>

\* wmic cannot be started: the 'error' handler resolves with the tree, which
\* is empty, and the 'close' handler that follows finds one empty line
TreeError ==
  /\ lookup.phase = "waiting"
  /\ lookup' = identifyResume(lookup, registry, getProcessTree(<<EmptyLine>>), TRUE)
  /\ UNCHANGED <<registry, projectIndex, processHandles, logBuffers, children,
                 killers, stopPending, nextPid, emitted, asyncErrored, otherVars>>

\* two projects, every handler, MaxPid processes
Next ==
  \/ \E p \in Projects, t \in ProjectTypes : \E e \in EnvsFor(t) :
        nextPid <= MaxPid /\ RunCommand(p, t, e)
  \/ \E p \in Projects, o \in SpawnOutcomes : nextPid <= MaxPid /\ RunRawCommand(p, o)
  \/ \E p \in Projects : StopCommand(p)
  \/ \E pid \in Pids, c \in ExitCodes : ChildExit(pid, c)
  \/ \E pid \in Pids, e \in ErrnoCodes : ChildError(pid, e)
  \/ \E pid \in Pids : KillProcessByPid(pid)
  \/ \E pid \in Pids, c \in {0, 1} : KillerClose(pid, c)
  \/ \E pid \in Pids : KillerError(pid)

Spec == Init /\ [][Next]_vars

\* one project that is run again and again with runCommand, stopped and killed
\* by pid: MaxRestartPid processes
NextRestart ==
  \/ \E o \in SpawnOutcomes :
        nextPid <= MaxRestartPid /\ RunCommand("A", "node", Env(TRUE, TRUE, o))
  \/ StopCommand("A")
  \/ \E pid \in RestartPids, c \in ExitCodes : ChildExit(pid, c)
  \/ \E pid \in RestartPids : KillProcessByPid(pid)
  \/ \E pid \in RestartPids, c \in {0, 1} : KillerClose(pid, c)
  \/ \E pid \in RestartPids : KillerError(pid)

SpecRestart == Init /\ [][NextRestart]_vars

\* the port-conflict resolver at work: one project, every handler, and
\* killProcessByPid on the pids of the project and on a foreign pid: MaxPid
\* processes
NextKill ==
  \/ \E t \in ProjectTypes : \E e \in EnvsFor(t) :
        nextPid <= MaxPid /\ RunCommand("A", t, e)
  \/ \E o \in SpawnOutcomes : nextPid <= MaxPid /\ RunRawCommand("A", o)
  \/ StopCommand("A")
  \/ \E pid \in Pids, c \in ExitCodes : ChildExit(pid, c)
  \/ \E pid \in Pids, e \in ErrnoCodes : ChildError(pid, e)
  \/ \E pid \in Pids \cup ForeignPids : KillProcessByPid(pid)
  \/ \E pid \in Pids \cup ForeignPids, c \in {0, 1} : KillerClose(pid, c)
  \/ \E pid \in Pids \cup ForeignPids : KillerError(pid)

SpecKill == Init /\ [][NextKill]_vars

\* the port scanner at work: projects are run and run again while pids found
\* on ports are looked up against process tables of every shape (a lookup
\* reads the keys and the projects of the registry, which only runs change)
NextTree ==
  \/ \E p \in Projects : nextPid <= MaxPid /\ RunCommand(p, "node", Env(TRUE, TRUE, Spawned))
  \/ \E pid \in TreePids : Identify(pid)
  \/ \E table \in Tables : TreeClose(table)
  \/ TreeError

SpecTree == Init /\ [][NextTree]_vars

(***************************************************************************)
(* The log buffers                                                         *)
(***************************************************************************)
\* the maps when the module is loaded, as a handler finds them
Loaded == [registry |-> EmptyMap, projectIndex |-> EmptyMap, processHandles |-> {},
           logBuffers |-> EmptyMap, emitted |-> <<>>, atKill |-> <<>>,
           sent |-> <<>>, resolved |-> FALSE, taskkill |-> "started"]

\* the entry of the n-th chunk process pid of projectId wrote to its stdout
ChunkEntry(pid, projectId, n) ==
  [projectId |-> projectId, pid |-> pid, data |-> DataMessage(n), type |-> "stdout"]

\* the maps after the process pid of projectId, just registered, has written
\* the chunks 1 .. n to its stdout, n within the capacity of its log buffer:
\* each 'data' event pushed its entry to the slot after the last, and the
\* last step emitted the event of chunk n
Fed(s, pid, projectId, n) ==
  [s EXCEPT !.logBuffers[pid] =
              [@ EXCEPT !.buf = [i \in 0 .. (n - 1) |-> ChunkEntry(pid, projectId, i + 1)],
                        !.size = n],
            !.emitted = <<LogEvent(ChunkEntry(pid, projectId, n))>>]

\* project A was run as process 1, which has written one chunk less than its
\* log buffer holds
Busy ==
  Fed(runCommand(Loaded, "A", "node", Env(TRUE, TRUE, Spawned), 1).s,
      1, "A", LOG_BUFFER_SIZE - 1)

InitBusy ==
  /\ registry = Busy.registry
  /\ projectIndex = Busy.projectIndex
  /\ processHandles = Busy.processHandles
  /\ logBuffers = Busy.logBuffers
  /\ emitted = Busy.emitted
  /\ children = MapSet(EmptyMap, 1, [kind |-> "cmd", projectId |-> "A"])
  /\ nextPid = 2
  /\ killers = {}
  /\ stopPending = {}
  /\ asyncErrored = {}
  /\ lookup = NoLookup
  /\ returned = NoReturn
  /\ InitMonitorOff
  /\ InitRingOff
  /\ InitProfilesOff

\* the chunks in the log of pid that were written since the behaviour began
NewChunks(pid) ==
  LET logs == getLogsForPid(Cur, pid)
  IN  Cardinality({i \in DOMAIN logs : logs[i].data = DataMessage(0)})

RECURSIVE Sum(_, _)
Sum(f, S) == IF S = {} THEN 0
             ELSE LET x == CHOOSE y \in S : TRUE IN f[x] + Sum(f, S \ {x})

\* a stream of a live child delivers a chunk of output
ChildData(pid, type) ==
  /\ MapHas(children, pid)
  /\ Sum([q \in DOMAIN registry |-> NewChunks(q)], DOMAIN registry) < MaxChunks
  /\ Commit(dataHandler(Cur, pid, children[pid].projectId, 0, type))
  /\ UNCHANGED <<children, killers, nextPid, stopPending, asyncErrored, lookup,
                 otherVars>>

\* the project has not been run again since process 1
FirstRun == DOMAIN registry = DOMAIN Busy.registry

\* project A is run once more while its first process has nearly filled its
\* log buffer: the two processes write output, exit and fail
NextLog ==
  \/ FirstRun /\ RunCommand("A", "node", Env(TRUE, TRUE, Spawned))
  \/ FirstRun /\ RunRawCommand("A", Spawned)
  \/ \E pid \in Pids, c \in ExitCodes : ChildExit(pid, c)
  \/ \E pid \in Pids, e \in ErrnoCodes : ChildError(pid, e)
  \/ \E pid \in Pids, type \in Streams : ChildData(pid, type)

SpecLog == InitBusy /\ [][NextLog]_vars

\* getLogsForPid(pid), on any pid
GetLogsForPid(pid) ==
  LET r == getLogsForPidCall(Cur, pid)
  IN  /\ Commit(r.s)
      /\ returned' = [call |-> "getLogsForPid", arg |-> pid, value |-> r.value]
      /\ UNCHANGED <<children, killers, nextPid, stopPending, asyncErrored, lookup,
                     monitorVars, ringVars, profileVars>>

\* the queries at work: two projects are run and stopped, their processes
\* exit, and the logs of any pid are read
NextQuery ==
  \/ \E p \in Projects : nextPid <= MaxPid /\ RunCommand(p, "node", Env(TRUE, TRUE, Spawned))
  \/ \E p \in Projects : StopCommand(p)
  \/ \E pid \in Pids, c \in ExitCodes : ChildExit(pid, c)
  \/ \E pid \in Pids \cup ForeignPids : GetLogsForPid(pid)

SpecQuery == Init /\ [][NextQuery]_vars

\* getStatus(projectId) returns; it writes no map
GetStatus(projectId) ==
  LET r == getStatusCall(Cur, projectId)
  IN  /\ Commit(r.s)
      /\ returned' = [call |-> "getStatus", arg |-> projectId, value |-> <<r.value>>]
      /\ UNCHANGED <<children, killers, nextPid, stopPending, asyncErrored, lookup,
                     monitorVars, ringVars, profileVars>>

\* the status query at work: project A is run by both entry points, stopped,
\* killed by pid, its processes exit and fail, and the status of A and of a
\* project that was never run is read
NextStatus ==
  \/ \E t \in ProjectTypes : \E e \in EnvsFor(t) :
        nextPid <= MaxPid /\ RunCommand("A", t, e)
  \/ \E o \in SpawnOutcomes : nextPid <= MaxPid /\ RunRawCommand("A", o)
  \/ StopCommand("A")
  \/ \E pid \in Pids, c \in ExitCodes : ChildExit(pid, c)
  \/ \E pid \in Pids, e \in ErrnoCodes : ChildError(pid, e)
  \/ \E pid \in Pids : KillProcessByPid(pid)
  \/ \E pid \in Pids, c \in {0, 1} : KillerClose(pid, c)
  \/ \E pid \in Pids : KillerError(pid)
  \/ \E p \in Projects : GetStatus(p)

SpecStatus == Init /\ [][NextStatus]_vars

(***************************************************************************)
(* The monitor                                                             *)
(***************************************************************************)
CurMonitor == [monitoringInterval |-> monitoringInterval, timers |-> timers]

CommitMonitor(m) ==
  /\ monitoringInterval' = m.monitoringInterval
  /\ timers' = m.timers

\* setEventEmitter(emitter)
SetEventEmitter ==
  LET r == setEventEmitter(CurMonitor, pollInterval)
  IN  /\ CommitMonitor(r.m)
      /\ returned' = [call |-> "setEventEmitter", arg |-> 0, value |-> <<r.outcome>>]
      /\ Commit(Cur)
      /\ UNCHANGED <<children, killers, nextPid, stopPending, asyncErrored, lookup,
                     ticks, pollInterval, ringVars, profileVars>>

\* shutdown()
Shutdown ==
  LET s == shutdownProcesses(Cur)
  IN  /\ CommitMonitor(shutdownTimer(CurMonitor))
      /\ Commit(s)
      /\ stopPending' = stopPending \cup Stopped(s)
      /\ returned' = [call |-> "shutdown", arg |-> 0, value |-> <<>>]
      /\ UNCHANGED <<children, killers, nextPid, asyncErrored, lookup,
                     ticks, pollInterval, ringVars, profileVars>>

\* the callbacks of ticks that have not returned
Pending(seq) == SelectSeq(seq, LAMBDA tick : ~tick.done)

\* the runtime fires a timer: the tick callback starts
TickStart ==
  /\ timers > 0
  /\ Len(ticks) < MaxTicks
  /\ ticks' = Pending(Append(ticks, tickStart(Cur)))
  /\ Commit(Cur)
  /\ UNCHANGED <<children, killers, nextPid, stopPending, asyncErrored, lookup,
                 returned, monitoringInterval, timers, pollInterval, ringVars, profileVars>>

\* the pidusage that tick k awaits settles: with the stats, which takes a
\* process whose exit has not been reported, or with an error
SampleDone(k, ok) ==
  /\ k \in DOMAIN ticks
  /\ ok => MapHas(children, ticks[k].awaiting)
  /\ LET r == sampleDone(Cur, ticks[k], ok)
     IN  /\ ticks' = Pending([ticks EXCEPT ![k] = r.tick])
         /\ Commit(r.s)
  /\ UNCHANGED <<children, killers, nextPid, stopPending, asyncErrored, lookup,
                 returned, monitoringInterval, timers, pollInterval, ringVars, profileVars>>

\* two projects are run, stopped and exit while the emitter is set, the timer
\* fires and the engine is shut down
NextMonitor ==
  \/ \E p \in Projects : nextPid <= MaxPid /\ RunCommand(p, "node", Env(TRUE, TRUE, Spawned))
  \/ \E p \in Projects : StopCommand(p)
  \/ \E pid \in Pids, c \in ExitCodes : ChildExit(pid, c)
  \/ SetEventEmitter
  \/ Shutdown
  \/ TickStart
  \/ \E k \in 1 .. MaxTicks, ok \in BOOLEAN : SampleDone(k, ok)

SpecMonitor == Init /\ [][NextMonitor]_vars

\* the engine is built with any of the intervals
InitFloor ==
  /\ InitMaps
  /\ monitoringInterval = "null"
  /\ timers = 0
  /\ ticks = <<>>
  /\ pollInterval \in PollIntervals
  /\ InitRingOff
  /\ InitProfilesOff

\* the start of the monitor at work: one project is run and exits while the
\* emitter is set, the timer fires and the engine is shut down
NextFloor ==
  \/ nextPid <= MaxPid /\ RunCommand("A", "node", Env(TRUE, TRUE, Spawned))
  \/ \E pid \in Pids, c \in ExitCodes : ChildExit(pid, c)
  \/ SetEventEmitter
  \/ Shutdown
  \/ TickStart
  \/ \E k \in 1 .. MaxTicks, ok \in BOOLEAN : SampleDone(k, ok)

SpecFloor == InitFloor /\ [][NextFloor]_vars

(***************************************************************************)
(* Errors of every code                                                    *)
(***************************************************************************)
\* spawn() throws with errno
Thrown(errno) == [kind |-> "throw", errno |-> errno]

\* one project is run with runCommand and runRawCommand: spawn() throws with
\* any code or starts a process, which reports an error of any code, and exits
NextClassify ==
  \/ \E o \in {Spawned} \cup {Thrown(e) : e \in AllErrnoCodes} :
        nextPid <= MaxPid /\ RunCommand("A", "node", Env(TRUE, TRUE, o))
  \/ \E o \in {Spawned} \cup {Thrown(e) : e \in AllErrnoCodes} :
        nextPid <= MaxPid /\ RunRawCommand("A", o)
  \/ \E pid \in Pids, c \in ExitCodes : ChildExit(pid, c)
  \/ \E pid \in Pids, e \in AllErrnoCodes : ChildError(pid, e)

SpecClassify == Init /\ [][NextClassify]_vars

(***************************************************************************)
(* A RingBuffer on its own                                                 *)
(***************************************************************************)
\* new RingBuffer(capacity), for every capacity the constructor accepts
InitRing ==
  /\ InitMaps
  /\ InitMonitorOff
  /\ ring \in {RB_New(c) : c \in Capacities}
  /\ pushed = <<>>
  /\ InitProfilesOff

\* ring.push(item)
RingPush(item) ==
  /\ Len(pushed) < MaxPushes
  /\ ring' = RB_push(ring, item)
  /\ pushed' = Append(pushed, item)
  /\ UNCHANGED <<mapVars, returned, monitorVars, profileVars>>

\* ring.toArray(): builds the array RB_toArray(ring) and writes no field
RingToArray ==
  /\ RB_toArray(ring) \in Seq(Items)
  /\ UNCHANGED vars

\* ring.clear()
RingClear ==
  /\ ring' = RB_clear(ring)
  /\ pushed' = <<>>
  /\ UNCHANGED <<mapVars, returned, monitorVars, profileVars>>

NextRing ==
  \/ \E item \in Items : RingPush(item)
  \/ RingToArray
  \/ RingClear

SpecRing == InitRing /\ [][NextRing]_vars

\* the capacities a caller may pass, those the constructor refuses included
AnyCapacities == (0 - MaxCapacity) .. MaxCapacity

\* new RingBuffer(capacity) by a caller that holds no buffer yet
RingConstruct(capacity) ==
  /\ ring = NoRing
  /\ LET r == RB_constructor(capacity)
     IN  /\ ring' = r.rb
         /\ returned' = [call |-> "RingBuffer", arg |-> capacity,
                         value |-> <<r.outcome>>]
  /\ pushed' = <<>>
  /\ UNCHANGED <<mapVars, monitorVars, profileVars>>

\* there is no buffer to call before a construction succeeded
NextConstruct ==
  \/ \E capacity \in AnyCapacities : RingConstruct(capacity)
  \/ \E item \in Items : ring # NoRing /\ RingPush(item)
  \/ ring # NoRing /\ RingToArray
  \/ ring # NoRing /\ RingClear

SpecConstruct == Init /\ [][NextConstruct]_vars

(***************************************************************************)
(* Shutdown                                                                *)
(***************************************************************************)
\* the application quits at any moment: two projects are run and run again,
\* their processes are killed by pid and exit, the monitor is started, and
\* shutdown is called
NextShutdown ==
  \/ \E p \in Projects : nextPid <= MaxPid /\ RunCommand(p, "node", Env(TRUE, TRUE, Spawned))
  \/ \E pid \in Pids, c \in ExitCodes : ChildExit(pid, c)
  \/ \E pid \in Pids : KillProcessByPid(pid)
  \/ \E pid \in Pids, c \in {0, 1} : KillerClose(pid, c)
  \/ SetEventEmitter
  \/ Shutdown

SpecShutdown == Init /\ [][NextShutdown]_vars

(***************************************************************************)
(* Startup profiles                                                        *)
(***************************************************************************)
CurProfile == [s |-> Cur, running |-> runningProfiles]

\* what spawn() can do: it creates no process once MaxPid pids are handed out
SpawnOutcomesAt(pid) ==
  IF pid <= MaxPid THEN SpawnOutcomes ELSE {o \in SpawnOutcomes : o.kind # "ok"}

\* the execution that awaits the command run as pid, if any
Awaiting(pid) == {e \in executions : e.pid = pid}

\* runProfile(profileId) is called and runs to its first await
RunProfile(profileId, spawned) ==
  LET r == runProfile(CurProfile, profileId, spawned, nextPid)
  IN  /\ Commit(r.q.s)
      /\ runningProfiles' = r.q.running
      /\ Started(r, "raw", ProfileProject(profileId))
      /\ executions' = IF r.outcome = "awaiting"
                       THEN executions \cup
                              {[profileId |-> profileId, cmd |-> 1, pid |-> nextPid]}
                       ELSE executions
      /\ stopPending' = stopPending \cup Stopped(r.q.s)
      /\ returned' = [call |-> "runProfile", arg |-> profileId, value |-> <<r.outcome>>]
      /\ UNCHANGED <<killers, asyncErrored, lookup, monitorVars, ringVars>>

\* stopProfile(profileId)
StopProfile(profileId) ==
  LET q == stopProfile(CurProfile, profileId)
  IN  /\ Commit(q.s)
      /\ runningProfiles' = q.running
      /\ stopPending' = stopPending \cup Stopped(q.s)
      /\ returned' = [call |-> "stopProfile", arg |-> profileId, value |-> <<>>]
      /\ UNCHANGED <<children, killers, nextPid, asyncErrored, lookup, executions,
                     monitorVars, ringVars>>

\* the exit of a child is reported: the exit handler of runRawCommand, then
\* the listener of runRawCommandAsync, then the execution that awaits it
\* goes on to its next await or to its end
ProfileChildExit(pid, code, spawned) ==
  /\ MapHas(children, pid)
  /\ LET projectId == children[pid].projectId
         s1 == rawExitHandler(Cur, pid, projectId, code)
         q1 == [s |-> s1, running |-> runningProfiles]
         r == IF Awaiting(pid) = {} THEN Settled(q1, "none")
              ELSE awaitExit(q1, CHOOSE e \in Awaiting(pid) : TRUE, code, spawned, nextPid)
     IN  /\ Commit(r.q.s)
         /\ runningProfiles' = r.q.running
         /\ children' = IF r.result = "pid"
                         THEN MapSet(MapDelete(children, pid), nextPid,
                                     [kind |-> "raw", projectId |-> projectId])
                         ELSE MapDelete(children, pid)
         /\ nextPid' = IF r.result = "pid" THEN nextPid + 1 ELSE nextPid
         /\ executions' = (executions \ Awaiting(pid)) \cup
                            (IF r.outcome = "awaiting"
                             THEN {[e EXCEPT !.cmd = @ + 1, !.pid = nextPid] :
                                     e \in Awaiting(pid)}
                             ELSE {})
         /\ stopPending' = (stopPending \ {pid}) \cup Stopped(r.q.s)
  /\ asyncErrored' = asyncErrored \ {pid}
  /\ UNCHANGED <<killers, lookup, returned, monitorVars, ringVars>>

\* a live child reports an error: the error handler of runRawCommand, then
\* the listener of runRawCommandAsync rejects the execution that awaits it
ProfileChildError(pid, errno) ==
  /\ MapHas(children, pid)
  /\ pid \notin asyncErrored
  /\ LET s1 == rawErrorHandler(Cur, pid, children[pid].projectId, errno)
         q1 == [s |-> s1, running |-> runningProfiles]
         r == IF Awaiting(pid) = {} THEN Settled(q1, "none")
              ELSE awaitError(q1, CHOOSE e \in Awaiting(pid) : TRUE)
     IN  /\ Commit(r.q.s)
         /\ runningProfiles' = r.q.running
  /\ executions' = executions \ Awaiting(pid)
  /\ asyncErrored' = asyncErrored \cup {pid}
  /\ UNCHANGED <<children, killers, nextPid, stopPending, lookup, returned,
                 monitorVars, ringVars>>

\* the startup profile at work: it is run, stopped and run again while its
\* commands exit and fail
NextProfile ==
  \/ \E id \in ProfileIds : \E o \in SpawnOutcomesAt(nextPid) : RunProfile(id, o)
  \/ \E id \in ProfileIds : StopProfile(id)
  \/ \E pid \in Pids, c \in ExitCodes : \E o \in SpawnOutcomesAt(nextPid) :
        ProfileChildExit(pid, c, o)
  \/ \E pid \in Pids, e \in ErrnoCodes : ProfileChildError(pid, e)

SpecProfile == Init /\ [][NextProfile]_vars

(***************************************************************************)
(* What a step did, read off the two states                                *)
(***************************************************************************)
\* the process-state events among the events of a step
StateEvents(events) ==
  {events[i] : i \in {j \in DOMAIN events : events[j].channel = "process-state"}}

\* the project index maps the project of the live child pid to pid
Indexed(pid) ==
  /\ MapHas(projectIndex, children[pid].projectId)
  /\ projectIndex[children[pid].projectId] = pid

\* the step handles the exit notification of the live child pid
ExitStep(pid) == MapHas(children, pid) /\ ~MapHas(children', pid)

\* the exit code of that notification, as the exit line of the log carries it
ExitCodeOf(events) == events[Len(events)].data.arg

\* the entries of project p that are running
Running(reg, p) ==
  {pid \in DOMAIN reg : reg[pid].projectId = p /\ reg[pid].status = "running"}

\* the step completes the killProcessByPid(pid) that was pending: its promise
\* resolves
KillDone(pid) == pid \in killers /\ pid \notin killers'

\* the step handles the first asynchronous error of the live child pid
ErrorStep(pid) ==
  MapHas(children, pid) /\ pid \notin asyncErrored /\ pid \in asyncErrored'

\* the project index does not map the project of the entry of pid to pid
Retired(reg, index, pid) ==
  ~(MapHas(index, reg[pid].projectId) /\ index[reg[pid].projectId] = pid)

\* the step creates an OS process
SpawnStep == nextPid' = nextPid + 1


\* the pids reached from the pids of S by following the parent entries of the
\* table upward, any number of times
RECURSIVE Up(_, _)
Up(tree, S) ==
  LET T == S \cup {tree[x] : x \in S \cap DOMAIN tree}
  IN  IF T = S THEN S ELSE Up(tree, T)

\* the pids reached from pid by following parent entries at least once
Ancestors(tree, pid) ==
  IF MapHas(tree, pid) THEN Up(tree, {tree[pid]}) ELSE {}

\* the step completes an identifyProjectIdFromPid call
LookupDone == lookup' # lookup /\ lookup'.phase = "done"

\* the projects of the tracked roots that are pid or that pid descends from
Owners(reg, tree, pid) ==
  {reg[r].projectId : r \in {q \in DOMAIN reg : q = pid \/ q \in Ancestors(tree, pid)}}

(***************************************************************************)
(* C1: run, then stop: stopped, never error                                *)
(***************************************************************************)
\* C1: once stopCommand has acted on a process started by runCommand, its
\* entry is stopped and every process-state event emitted because of it is
\* 'stopped', in the stopping step and in every later step up to and including
\* the handling of its exit notification, whatever the exit code (the steps in
\* which the child itself has reported an asynchronous error are not covered)
C1_StoppedNeverError ==
  [][\A pid \in stopPending \cup stopPending' :
       (MapHas(children, pid) /\ children[pid].kind = "cmd" /\ pid \notin asyncErrored')
         => /\ registry'[pid].status = "stopped"
            /\ \A e \in StateEvents(emitted') : e.src = pid => e.status = "stopped"]_vars

\* a process started by runCommand has been stopped and its exit, with a
\* nonzero code, has just been handled: the events of the step are the
\* 'stopped' state and the exit line
C1_Witness ==
  \E pid \in DOMAIN registry :
    /\ ~MapHas(children, pid)
    /\ registry[pid].status = "stopped"
    /\ Len(emitted) = 2
    /\ emitted[1] = StateEvent(registry[pid].projectId, 0, "stopped", NoError, pid)
    /\ emitted[2].channel = "process-log"
    /\ emitted[2].data = ExitMessage(1)

(***************************************************************************)
(* C2: the exit rule of runCommand                                         *)
(***************************************************************************)
\* C2: when the exit of a process started by runCommand is handled, the exit
\* is caller-initiated iff the project index does not map the project to the
\* pid at that moment; a caller-initiated exit sets stopped for every code, a
\* spontaneous exit with code 0 sets stopped, a spontaneous exit with another
\* code sets error and emits the error state with the message 'Process exited
\* with code <code>'; no error state is emitted in the other cases
C2_ExitRule ==
  [][\A pid \in DOMAIN children :
       (children[pid].kind = "cmd" /\ ExitStep(pid))
         => LET code == ExitCodeOf(emitted')
                project == children[pid].projectId
                final == IF ~Indexed(pid) \/ code = 0 THEN "stopped" ELSE "error"
                msg == IF final = "error" THEN ExitMessage(code) ELSE NoError
            IN  /\ registry'[pid].status = final
                /\ StateEvents(emitted') = {StateEvent(project, 0, final, msg, pid)}]_vars

\* a process started by runCommand has exited by itself with a nonzero code:
\* its entry is in error and the error state carries the message
C2_Witness ==
  \E pid \in DOMAIN registry :
    /\ ~MapHas(children, pid)
    /\ registry[pid].status = "error"
    /\ Len(emitted) = 2
    /\ emitted[1] = StateEvent(registry[pid].projectId, 0, "error", ExitMessage(1), pid)

(***************************************************************************)
(* C3: one running entry per project                                       *)
(***************************************************************************)
\* C3: in every reachable state each project has at most one registry entry
\* whose status is running
C3_OneRunningPerProject ==
  \A p \in Projects : Cardinality(Running(registry, p)) <= 1

(***************************************************************************)
(* C4: a run supersedes the run before it                                  *)
(***************************************************************************)
\* C4: when runCommand succeeds for a project whose earlier run is still
\* running, that run is marked stopped, is out of the project index and has
\* been issued a tree-kill at the moment spawn() is called; when the call
\* returns, the index maps the project to the new pid and the new entry is
\* the only running entry of the project
C4_SupersedeBeforeSpawn ==
  [][\A p \in Projects, t \in ProjectTypes : \A e \in EnvsFor(t) :
       LET r == runCommand(Cur, p, t, e, nextPid)
       IN  (r.result = "pid" /\ RunCommand(p, t, e))
             => /\ \A old \in Running(registry, p) :
                     /\ r.atSpawn.registry[old].status = "stopped"
                     /\ old \in Stopped(r.atSpawn)
                /\ ~MapHas(r.atSpawn.projectIndex, p)
                /\ projectIndex'[p] = nextPid
                /\ Running(registry', p) = {nextPid}]_vars

(***************************************************************************)
(* C5: what the project index points at                                    *)
(***************************************************************************)
\* C5: in every reachable state, every pid the project index maps a project
\* to is a key of the registry, its entry belongs to that project, and its
\* status is running
C5_IndexedIsRunning ==
  \A p \in DOMAIN projectIndex :
    /\ MapHas(registry, projectIndex[p])
    /\ registry[projectIndex[p]].projectId = p
    /\ registry[projectIndex[p]].status = "running"

\* the index holds a restarted project: an earlier entry of the project has
\* been superseded, and the taskkill of a killProcessByPid is still pending
C5_Witness ==
  \E p \in DOMAIN projectIndex :
    /\ killers # {}
    /\ \E old \in DOMAIN registry :
         /\ old # projectIndex[p]
         /\ registry[old].projectId = p
         /\ registry[old].status = "stopped"

(***************************************************************************)
(* C6: a failed run changes nothing                                        *)
(***************************************************************************)
\* C6: whenever runCommand or runRawCommand returns {error: SpawnError}, the
\* registry, the project index, the process handles and the log buffers are
\* what they were before the call, and no process-state event is emitted
C6_FailedRunChangesNothing ==
  [][/\ \A p \in Projects, t \in ProjectTypes : \A e \in EnvsFor(t) :
          (runCommand(Cur, p, t, e, nextPid).result = "error" /\ RunCommand(p, t, e))
            => /\ UNCHANGED <<registry, projectIndex, processHandles, logBuffers>>
               /\ StateEvents(emitted') = {}
     /\ \A p \in Projects, o \in SpawnOutcomes :
          (runRawCommand(Cur, p, o, nextPid).result = "error" /\ RunRawCommand(p, o))
            => /\ UNCHANGED <<registry, projectIndex, processHandles, logBuffers>>
               /\ StateEvents(emitted') = {}]_vars

(***************************************************************************)
(* C7: stopCommand marks, unindexes, then kills                            *)
(***************************************************************************)
\* C7: when stopCommand is called for a project with an active pid, at the
\* moment the tree-kill is issued the entry is already stopped and the index
\* entry and the handle are already removed; the step emits the 'stopped'
\* state of the project, and it neither handles nor waits for the exit of the
\* process, which is still pending when the step ends
C7_StopBeforeKill ==
  [][\A p \in DOMAIN projectIndex :
       StopCommand(p)
         => LET pid == projectIndex[p]
                s == stopCommand(Cur, p)
            IN  /\ Len(s.atKill) = 1
                /\ s.atKill[1].pid = pid
                /\ s.atKill[1].status = "stopped"
                /\ ~s.atKill[1].indexed
                /\ ~s.atKill[1].handle
                /\ StateEvents(emitted') = {StateEvent(p, 0, "stopped", NoError, pid)}
                /\ MapHas(children, pid) /\ MapHas(children', pid)
                /\ pid \in stopPending']_vars

\* stopCommand has just acted on a running process: the entry is stopped, the
\* 'stopped' state is the event of the step, the exit is still to come
C7_Witness ==
  \E pid \in stopPending :
    /\ MapHas(children, pid)
    /\ registry[pid].status = "stopped"
    /\ emitted = <<StateEvent(registry[pid].projectId, 0, "stopped", NoError, pid)>>

(***************************************************************************)
(* C8: the exit rule of runRawCommand                                      *)
(***************************************************************************)
\* C8: when the exit of a process started by runRawCommand is handled after
\* the project index stopped mapping its project to it, its status is stopped
\* whatever the exit code
C8_RawExitRule ==
  [][\A pid \in DOMAIN children :
       (children[pid].kind = "raw" /\ ExitStep(pid) /\ ~Indexed(pid))
         => registry'[pid].status = "stopped"]_vars

(***************************************************************************)
(* C9: a process-state event for every transition                          *)
(***************************************************************************)
\* C9: every step that registers an entry or changes the status of an entry
\* emits a process-state event for the project of the entry with the new
\* status
C9_EventPerTransition ==
  [][\A pid \in DOMAIN registry' :
       (~MapHas(registry, pid) \/ registry[pid].status # registry'[pid].status)
         => \E e \in StateEvents(emitted') :
              /\ e.projectId = registry'[pid].projectId
              /\ e.status = registry'[pid].status]_vars

(***************************************************************************)
(* C10: a kill by pid is caller-initiated                                  *)
(***************************************************************************)
\* C10: when the exit of a process is handled while the killProcessByPid that
\* was called on it as the tracked running pid of its project has not
\* completed, no process-state event with status error is emitted and the
\* entry does not become error
C10_KillByPidNeverError ==
  [][\A pid \in killers :
       (MapHas(children, pid) /\ Tracked(pid) /\ ExitStep(pid))
         => /\ registry'[pid].status # "error"
            /\ \A e \in StateEvents(emitted') : e.status # "error"]_vars

(***************************************************************************)
(* C11: what a completed killProcessByPid leaves                           *)
(***************************************************************************)
\* C11: in the step in which the promise of killProcessByPid(pid) resolves,
\* for a pid that is a key of the registry, the entry of pid is stopped and
\* the project index does not map its project to pid afterwards, whether the
\* taskkill closed with 0, closed with another code, or could not be started
C11_KilledIsStopped ==
  [][\A pid \in killers :
       (KillDone(pid) /\ MapHas(registry, pid))
         => /\ registry'[pid].status = "stopped"
            /\ Retired(registry', projectIndex', pid)]_vars

\* a killProcessByPid on the running process of a project has completed while
\* the process is still alive: its entry is stopped although stopCommand never
\* acted on it, and the project has no active pid
C11_Witness ==
  \E pid \in DOMAIN children :
    /\ registry[pid].status = "stopped"
    /\ pid \notin stopPending
    /\ pid \notin killers
    /\ ~MapHas(projectIndex, registry[pid].projectId)

(***************************************************************************)
(* C12: an asynchronous error is always reported                           *)
(***************************************************************************)
\* C12: the step that handles an asynchronous error of a registered process,
\* started by runCommand or by runRawCommand, sets its entry to error, leaves
\* the project index not mapping its project to it (and otherwise as it was),
\* and emits both a process-state event with status error that carries the
\* classified SpawnError and a stderr log line
C12_AsyncErrorReported ==
  [][\A pid \in DOMAIN children :
       ErrorStep(pid)
         => LET project == children[pid].projectId
            IN  /\ registry'[pid].status = "error"
                /\ Retired(registry', projectIndex', pid)
                /\ (~Indexed(pid) => projectIndex' = projectIndex)
                /\ \E e \in StateEvents(emitted'), errno \in ErrnoCodes :
                     /\ e.projectId = project
                     /\ e.status = "error"
                     /\ e.error = makeSpawnError(project, errno)
                /\ \E i \in DOMAIN emitted' :
                     /\ emitted'[i].channel = "process-log"
                     /\ emitted'[i].pid = pid
                     /\ emitted'[i].type = "stderr"]_vars

(***************************************************************************)
(* C13: what a successful runCommand leaves                                *)
(***************************************************************************)
\* C13: when runCommand returns {pid}, the registry holds a running entry of
\* the project under pid, the project index maps the project to pid, the log
\* of pid is empty, and the call emitted exactly one process-state event
\* {projectId, pid, running}, as its last event: the events before it are the
\* 'stopped' events of the superseded run
C13_RunRegisters ==
  [][SpawnStep => \A p \in Projects, t \in ProjectTypes : \A e \in EnvsFor(t) :
       (runCommand(Cur, p, t, e, nextPid).result = "pid" /\ RunCommand(p, t, e))
         => /\ MapHas(registry', nextPid)
            /\ registry'[nextPid].projectId = p
            /\ registry'[nextPid].status = "running"
            /\ MapHas(projectIndex', p)
            /\ projectIndex'[p] = nextPid
            /\ getLogsForPid([logBuffers |-> logBuffers'], nextPid) = <<>>
            /\ Len(emitted') >= 1
            /\ emitted'[Len(emitted')] = StateEvent(p, nextPid, "running", NoError, nextPid)
            /\ \A i \in 1 .. Len(emitted') - 1 :
                 /\ emitted'[i].channel = "process-state"
                 /\ emitted'[i].status = "stopped"
                 /\ emitted'[i].projectId = p]_vars

\* a runCommand has just superseded a run of the same project: the events of
\* the step are the 'stopped' state of the old run, then the 'running' state
\* of the new pid, which the index holds
C13_Witness ==
  \E p \in DOMAIN projectIndex :
    /\ Len(emitted) = 2
    /\ emitted[1].channel = "process-state"
    /\ emitted[1].status = "stopped"
    /\ emitted[2] = StateEvent(p, projectIndex[p], "running", NoError, projectIndex[p])
    /\ registry[projectIndex[p]].status = "running"

(***************************************************************************)
(* C14: stopCommand without an active pid                                  *)
(***************************************************************************)
\* C14: in every reachable state, stopCommand for a project that has no
\* entry in the project index leaves the registry, the index, the handles and
\* the log buffers as it found them, issues no kill, sends no signal and emits
\* no event, whatever a taskkill would do
C14_StopWithoutPidIsNoop ==
  \A p \in Projects, k \in KillerOutcomes :
    ~MapHas(projectIndex, p)
      => LET s == stopCommand(CurK(k), p)
         IN  /\ s.registry = registry
             /\ s.projectIndex = projectIndex
             /\ s.processHandles = processHandles
             /\ s.logBuffers = logBuffers
             /\ s.atKill = <<>>
             /\ s.sent = <<>>
             /\ s.emitted = <<>>

\* a project whose run was stopped and is still alive has no index entry, and
\* the last step emitted nothing
C14_Witness ==
  \E pid \in stopPending :
    /\ MapHas(children, pid)
    /\ ~MapHas(projectIndex, registry[pid].projectId)
    /\ registry[pid].status = "stopped"
    /\ killers = {}
    /\ emitted = <<>>

(***************************************************************************)
(* C15: a pid that left the index stays out                                *)
(***************************************************************************)
\* C15: once the project index does not map the project of a registered pid
\* to that pid, no step makes it map it to that pid again, and in every
\* reachable state no stopCommand, runCommand or runRawCommand, with any
\* input, issues a kill for the pid or changes its entry, whether the process
\* is alive or not
C15_RetiredStaysRetired ==
  /\ [][\A pid \in DOMAIN registry :
          Retired(registry, projectIndex, pid) => Retired(registry', projectIndex', pid)]_vars
  /\ [](\A p \in Projects, k \in KillerOutcomes :
          LET Kept(s) == \A pid \in DOMAIN registry :
                           Retired(registry, projectIndex, pid)
                             => /\ pid \notin Stopped(s)
                                /\ s.registry[pid] = registry[pid]
          IN  /\ Kept(stopCommand(CurK(k), p))
              /\ \A t \in ProjectTypes : \A e \in EnvsFor(t) :
                   Kept(runCommand(CurK(k), p, t, e, nextPid).s)
              /\ \A o \in SpawnOutcomes :
                   Kept(runRawCommand(CurK(k), p, o, nextPid).s))

\* a superseded process is still alive while its project runs a newer pid
C15_Witness ==
  \E pid \in DOMAIN children :
    /\ MapHas(projectIndex, registry[pid].projectId)
    /\ projectIndex[registry[pid].projectId] # pid
    /\ registry[pid].status = "stopped"

(***************************************************************************)
(* C16: the direct signal, once                                            *)
(***************************************************************************)
\* C16: whenever the taskkill cannot be started, in stopCommand and in
\* killProcessByPid, the direct signal is sent to the root pid exactly once,
\* and the promise of killProcessByPid resolves (a signal that fails is
\* swallowed by its catch: it changes nothing and reaches nobody)
C16_FallbackSignalOnce ==
  [][/\ \A p \in DOMAIN projectIndex :
          StopCommand(p) => stopCommand(CurK("failed"), p).sent = <<projectIndex[p]>>
     /\ \A pid \in killers :
          KillerError(pid)
            => /\ killerFailed(Cur, pid).sent = <<pid>>
               /\ killerFailed(Cur, pid).resolved]_vars

(***************************************************************************)
(* C17: killProcessByPid on a pid the engine does not manage               *)
(***************************************************************************)
\* C17: for a pid that is not a key of the registry, neither the call of
\* killProcessByPid nor the step that completes it (the taskkill closes with
\* 0, closes with another code, or cannot be started) changes the registry,
\* the project index, the process handles or the log buffers
C17_ForeignKillChangesNothing ==
  [][\A pid \in killers \cup killers' :
       (~MapHas(registry, pid) /\ (pid \in killers) # (pid \in killers'))
         => UNCHANGED <<registry, projectIndex, processHandles, logBuffers>>]_vars

\* killProcessByPid is pending on a foreign pid while a project runs a
\* process of its own
C17_Witness ==
  \E f \in ForeignPids \cap killers :
    /\ ~MapHas(registry, f)
    /\ \E p \in DOMAIN projectIndex : registry[projectIndex[p]].status = "running"

(***************************************************************************)
(* C18: who owns a pid                                                     *)
(***************************************************************************)
\* C18: a completed identifyProjectIdFromPid(pid) returns the project of a
\* tracked root that is pid itself or that pid descends from, directly or
\* transitively, in the table it was given, and no match when there is no
\* such root, the empty table included; the direct registry hit returns the
\* project of the entry of pid
C18_OwnerFound ==
  [][LookupDone
       => LET owners == Owners(registry, lookup'.tree, lookup'.target)
          IN  /\ owners # {} => lookup'.result \in owners
              /\ owners = {} => lookup'.result = NoMatch
              /\ lookup'.queries = 0
                   => /\ MapHas(registry, lookup'.target)
                      /\ lookup'.result = registry[lookup'.target].projectId]_vars

\* a pid that is no tracked root, and whose parent is none either, has been
\* given the project of the root it descends from
C18_Witness ==
  /\ lookup.phase = "done"
  /\ lookup.result # NoMatch
  /\ ~MapHas(registry, lookup.target)
  /\ MapHas(lookup.tree, lookup.target)
  /\ ~MapHas(registry, lookup.tree[lookup.target])
  /\ lookup.tree[lookup.target] # lookup.target

(***************************************************************************)
(* C19: the ancestry test                                                  *)
(***************************************************************************)
\* C19: on every table a lookup was given, cycles, self-parented pids and
\* missing entries included, and for every root pid, the ancestry test of the
\* looked-up pid returns, and it returns true exactly when the pid is the
\* root or the root is reached by following parent entries upward from it
C19_AncestryTest ==
  lookup.phase = "done"
    => \A rootPid \in TreePids \ {0} :
         LET r == isDescendantInTree(rootPid, lookup.target, lookup.tree)
         IN  /\ r.done
             /\ r.found <=> (lookup.target = rootPid
                               \/ rootPid \in Ancestors(lookup.tree, lookup.target))

\* a lookup of a pid that lies on a cycle of the table has completed without
\* a match, while the registry holds a root
C19_Witness ==
  /\ lookup.phase = "done"
  /\ lookup.queries = 1
  /\ lookup.target \in Ancestors(lookup.tree, lookup.target)
  /\ MapHas(lookup.tree, lookup.target) /\ lookup.tree[lookup.target] # lookup.target
  /\ lookup.result = NoMatch
  /\ registry # EmptyMap

Min(a, b) == IF a < b THEN a ELSE b

\* the last n items of seq, in order
LastN(seq, n) == SubSeq(seq, Len(seq) - n + 1, Len(seq))

\* the buffer rb after the pushes of seq, in order
RECURSIVE Replay(_, _)
Replay(rb, seq) ==
  IF seq = <<>> THEN rb ELSE Replay(RB_push(rb, Head(seq)), Tail(seq))

\* the items of seq
Range(seq) == {seq[i] : i \in DOMAIN seq}

\* C21: after n pushes since construction or the last clear, toArray() of a
\* buffer of capacity c is the last min(n, c) pushed items, in push order
C21_ToArrayIsLastPushed ==
  RB_toArray(ring) = LastN(pushed, Min(Len(pushed), ring.capacity))

\* capacity 3 and the pushes a, b, c, d: toArray() is [b, c, d]
C21_Witness ==
  /\ ring.capacity = 3
  /\ pushed = <<"a", "b", "c", "d">>
  /\ RB_toArray(ring) = <<"b", "c", "d">>

\* C22: the length of a buffer of capacity c is in 0 .. c, its head index in
\* 0 .. c - 1, and only the c slots 0 .. c - 1 of its storage are ever written
C22_RingBounded ==
  /\ 0 <= ring.size /\ ring.size <= ring.capacity
  /\ 0 <= ring.head /\ ring.head < ring.capacity
  /\ DOMAIN ring.buf \subseteq 0 .. (ring.capacity - 1)

\* a full buffer whose head has gone round the storage once
C22_Witness ==
  /\ ring.capacity >= 2
  /\ ring.size = ring.capacity
  /\ Len(pushed) = 2 * ring.capacity
  /\ ring.head = 0

\* C23: clear() empties the buffer in every state, and a buffer that was
\* cleared is, pushes after pushes, what a new buffer of the same capacity
\* is after the same pushes: toArray() holds only items pushed since
C23_ClearIsFresh ==
  /\ RB_toArray(RB_clear(ring)) = <<>>
  /\ RB_clear(ring).size = 0
  /\ RB_clear(ring).capacity = ring.capacity
  /\ LET fresh == Replay(RB_New(ring.capacity), pushed)
     IN  /\ RB_toArray(ring) = RB_toArray(fresh)
         /\ ring.size = fresh.size
  /\ Range(RB_toArray(ring)) \subseteq Range(pushed)

\* a buffer that was cleared and pushed to again, its storage still holding
\* an item of before the clear
C23_Witness ==
  /\ pushed # <<>>
  /\ \E k \in DOMAIN ring.buf : ring.buf[k] \notin Range(pushed)

\* C31: new RingBuffer(capacity) with capacity < 1 (0 or negative) fails with
\* an error and yields no buffer; with capacity >= 1 it succeeds with an empty
\* buffer of that capacity; no buffer of capacity < 1 ever exists
C31_ConstructorRefusesCapacityBelowOne ==
  /\ [][\A capacity \in AnyCapacities :
         RingConstruct(capacity) =>
           IF capacity < 1
           THEN /\ returned'.value = <<"RangeError">>
                /\ ring' = NoRing
           ELSE /\ returned'.value = <<"constructed">>
                /\ ring' # NoRing
                /\ ring'.capacity = capacity
                /\ ring'.size = 0
                /\ RB_toArray(ring') = <<>>]_vars
  /\ [](ring = NoRing \/ ring.capacity >= 1)

\* new RingBuffer(0) has thrown and its caller holds no buffer
C31_Witness ==
  /\ returned.call = "RingBuffer"
  /\ returned.arg = 0
  /\ returned.value = <<"RangeError">>
  /\ ring = NoRing

(***************************************************************************)
(* Log claims                                                              *)
(***************************************************************************)
\* the log entry a process-log event carries
EntryOf(event) == [projectId |-> event.projectId, pid |-> event.pid,
                   data |-> event.data, type |-> event.type]

IsLogOf(event, pid) == event.channel = "process-log" /\ event.pid = pid

\* the entries of the process-log events for pid among events, in order
LogEntries(events, pid) ==
  LET IsLog(e) == IsLogOf(e, pid)
      logs == SelectSeq(events, IsLog)
  IN  [i \in DOMAIN logs |-> EntryOf(logs[i])]

\* what getLogsForPid(pid) returns in the state a step leads to
LogsAfter(pid) == getLogsForPid([logBuffers |-> logBuffers'], pid)

\* C24: getLogsForPid(pid) is, in emission order, the most recent
\* min(n, LOG_BUFFER_SIZE) process-log entries emitted for pid since it was
\* registered, each with that pid and its project: every step appends the
\* entries of the process-log events it emits for pid to the log of pid,
\* which is empty at registration, and drops the oldest beyond the capacity;
\* a chunk of output, an exit and an error are each one entry and one event
C24_LogsAreTheEmittedEntries ==
  /\ [][\A pid \in Pids :
          LET new == LogEntries(emitted', pid)
          IN  /\ MapHas(logBuffers', pid) /\ ~MapHas(registry, pid)
                    => LogsAfter(pid) = new /\ new = <<>>
              /\ MapHas(registry, pid) /\ new = <<>>
                    => logBuffers'[pid] = logBuffers[pid]
              /\ MapHas(registry, pid) /\ new # <<>>
                    => LET all == getLogsForPid(Cur, pid) \o new
                       IN  LogsAfter(pid) = LastN(all, Min(Len(all), LOG_BUFFER_SIZE))
              /\ \A i \in DOMAIN new :
                    /\ MapHas(logBuffers', pid)
                    /\ new[i].projectId = registry'[pid].projectId
              /\ ExitStep(pid) \/ ErrorStep(pid) => Len(new) = 1]_vars
  /\ [](\A pid \in DOMAIN registry, type \in Streams :
          LET s == dataHandler(Cur, pid, registry[pid].projectId, 0, type)
              entry == [projectId |-> registry[pid].projectId, pid |-> pid,
                        data |-> DataMessage(0), type |-> type]
              all == Append(getLogsForPid(Cur, pid), entry)
          IN  /\ s.emitted = <<LogEvent(entry)>>
              /\ getLogsForPid(s, pid) = LastN(all, Min(Len(all), LOG_BUFFER_SIZE)))

\* a full log that has dropped its oldest entries and ends with the entry of
\* the event just emitted
C24_Witness ==
  \E pid \in DOMAIN logBuffers :
    /\ logBuffers[pid].size = LOG_BUFFER_SIZE
    /\ logBuffers[pid].head > 0
    /\ emitted # <<>>
    /\ IsLogOf(emitted[Len(emitted)], pid)
    /\ getLogsForPid(Cur, pid)[LOG_BUFFER_SIZE] = EntryOf(emitted[Len(emitted)])

\* C25: getLogsForPid on a pid that was never registered returns the empty
\* sequence and leaves the maps as they are: no log buffer is made for the pid
C25_UnknownPidNoLogs ==
  \A pid \in Pids \cup ForeignPids :
    ~MapHas(registry, pid)
      => /\ getLogsForPidCall(Cur, pid).value = <<>>
         /\ getLogsForPidCall(Cur, pid).s = Cur

\* the logs of a pid that was never registered have been read, while the
\* engine holds the logs of another
C25_Witness ==
  /\ returned.call = "getLogsForPid"
  /\ ~MapHas(registry, returned.arg)
  /\ returned.value = <<>>
  /\ \E pid \in DOMAIN logBuffers : logBuffers[pid].size > 0

(***************************************************************************)
(* Monitor claims                                                          *)
(***************************************************************************)
\* the process-stats events among events
StatsEvents(events) ==
  {events[i] : i \in {j \in DOMAIN events : events[j].channel = "process-stats"}}

\* C26: in a tick, a sample that fails emits no event and adds no stats for
\* its pid, and the tick goes on to the next running pid, whose sample, if
\* it succeeds, emits the process-stats event of that pid
C26_FailedSampleSkipsOnePid ==
  \A k \in DOMAIN ticks :
    /\ ticks[k].warned \cap ticks[k].stats = {}
    /\ ticks[k].awaiting # 0
          => LET pid == ticks[k].awaiting
                 r == sampleDone(Cur, ticks[k], FALSE)
                 q == NextRunning(registry, pid)
             IN  /\ r.s.emitted = <<>>
                 /\ pid \notin r.tick.stats
                 /\ q # 0
                       => /\ r.tick.awaiting = q
                          /\ sampleDone(r.s, r.tick, TRUE).s.emitted
                               = <<StatsEvent(registry[q].projectId, q)>>

\* a tick whose sample of one pid failed has gone on to sample a later pid
C26_Witness ==
  \E k \in DOMAIN ticks :
    /\ ticks[k].warned # {}
    /\ \A p \in ticks[k].warned : p < ticks[k].awaiting
    /\ emitted = <<>>

\* C27: when a process-stats event for a pid is emitted, the registry entry
\* of the pid has status running
C27_StatsOnlyForRunning ==
  \A e \in StatsEvents(emitted) : registry[e.pid].status = "running"

\* C28: the runtime holds at most one timer of the monitor, the one in
\* monitoringInterval, however often setEventEmitter is called; shutdown
\* leaves none, and a tick starts only while there is one
C28_OneTimer ==
  /\ [](/\ timers <= 1
        /\ timers = 1 <=> monitoringInterval # "null"
        /\ setEventEmitter(CurMonitor, pollInterval).m.timers <= 1
        /\ shutdownTimer(CurMonitor).timers = 0
        /\ shutdownTimer(CurMonitor).monitoringInterval = "null")
  /\ [][Len(ticks') > Len(ticks) => timers > 0 /\ returned.call # "shutdown"]_vars

\* setEventEmitter is called again while two processes run and a tick has
\* started: the timer is kept
C28_Witness ==
  /\ returned = [call |-> "setEventEmitter", arg |-> 0, value |-> <<"kept">>]
  /\ timers = 1
  /\ ticks # <<>>
  /\ Cardinality({pid \in DOMAIN registry : registry[pid].status = "running"}) > 1

\* C29: with an interval below MIN_MONITOR_INTERVAL_MS the start of the
\* monitor throws and no timer is installed; with an interval at or above it
\* the timer is installed
C29_IntervalFloor ==
  LET r == startMonitoring([monitoringInterval |-> "null", timers |-> 0], pollInterval)
  IN  /\ pollInterval < MIN_MONITOR_INTERVAL_MS
            => /\ r.outcome = "Error" /\ r.m.timers = 0
                                     /\ r.m.monitoringInterval = "null"
               /\ timers = 0 /\ monitoringInterval = "null"
               /\ returned.call = "setEventEmitter" => returned.value = <<"Error">>
      /\ pollInterval >= MIN_MONITOR_INTERVAL_MS
            => /\ r.outcome = "installed" /\ r.m.timers = 1
                                         /\ r.m.monitoringInterval = "timer"
               /\ returned.call = "setEventEmitter"
                     => timers = 1 /\ returned.value # <<"Error">>

\* setEventEmitter was called in an engine built with an interval below the
\* floor: it threw, and there is no timer
C29_Witness ==
  /\ pollInterval < MIN_MONITOR_INTERVAL_MS
  /\ returned = [call |-> "setEventEmitter", arg |-> 0, value |-> <<"Error">>]
  /\ timers = 0
  /\ monitoringInterval = "null"

(***************************************************************************)
(* Error classification claims                                             *)
(***************************************************************************)
\* the classes by code, as stated
ClassOf(errno) ==
  IF errno = "ENOENT" THEN "EXECUTABLE_MISSING"
  ELSE IF errno = "EACCES" \/ errno = "EPERM" THEN "PERMISSION_DENIED"
  ELSE IF errno = "EAGAIN" \/ errno = "EMFILE" THEN "SPAWN_FAILURE"
  ELSE "UNKNOWN"

\* the process-state events among events that report an error of a process
\* (not an exit)
ErrorEvents(events) ==
  {e \in StateEvents(events) : e.status = "error" /\ e.error.text \in AllErrnoCodes}

\* C30: the class of an error is determined by its code, ENOENT giving
\* EXECUTABLE_MISSING, EACCES and EPERM PERMISSION_DENIED, EAGAIN and EMFILE
\* SPAWN_FAILURE and any other code, or none, UNKNOWN: in the error a run
\* returns when spawn() throws, and in the state event and the log line of
\* an error a process reports after it was spawned
C30_ClassificationByCode ==
  /\ \A errno \in AllErrnoCodes :
        /\ classifyError(errno) = ClassOf(errno)
        /\ makeSpawnError("A", errno).code = ClassOf(errno)
        /\ runCommand(Cur, "A", "node", Env(TRUE, TRUE, Thrown(errno)), nextPid).error
             = ClassOf(errno)
        /\ runRawCommand(Cur, "A", Thrown(errno), nextPid).error = ClassOf(errno)
        /\ \A pid \in DOMAIN children :
              LET s == IF children[pid].kind = "cmd"
                       THEN errorHandler(Cur, pid, children[pid].projectId, errno)
                       ELSE rawErrorHandler(Cur, pid, children[pid].projectId, errno)
              IN  /\ \A e \in StateEvents(s.emitted) : e.error.code = ClassOf(errno)
                  /\ s.emitted[Len(s.emitted)].data.code = ClassOf(errno)
  /\ \A e \in ErrorEvents(emitted) : e.error.code = ClassOf(e.error.text)

\* a process reported an error with the code EPERM: the state event carries
\* PERMISSION_DENIED
C30_Witness ==
  \E e \in ErrorEvents(emitted) :
    e.error.text = "EPERM" /\ e.error.code = "PERMISSION_DENIED"

(***************************************************************************)
(* C32: running entries and the project index                              *)
(***************************************************************************)
\* C32: in every reachable state, every registry entry whose status is
\* running is the pid the project index maps its project to
C32_RunningIsIndexed ==
  \A pid \in DOMAIN registry :
    registry[pid].status = "running"
      => /\ MapHas(projectIndex, registry[pid].projectId)
         /\ projectIndex[registry[pid].projectId] = pid

(***************************************************************************)
(* C33: the completion of killProcessByPid and a restarted project         *)
(***************************************************************************)
\* what the completion of a pending killProcessByPid(pid) leaves, for every
\* way its taskkill can end
KillCompletions(pid) ==
  {killerClose(Cur, pid, code) : code \in {0, 1}} \cup {killerFailed(Cur, pid)}

\* C33: the completion of killProcessByPid(p) removes the index entry of the
\* project P of p only if the index maps P to p at that moment: when the
\* index maps P to a newer pid q, the index and the entry of q are unchanged
C33_KillCompletionSparesNewerRun ==
  \A p \in killers : \A r \in KillCompletions(p) :
    MapHas(registry, p) =>
      LET P == registry[p].projectId
      IN  (MapHas(projectIndex, P) /\ projectIndex[P] # p)
            => /\ r.projectIndex = projectIndex
               /\ r.registry[projectIndex[P]] = registry[projectIndex[P]]

(***************************************************************************)
(* C34: the state the consumer holds for a project                         *)
(***************************************************************************)
\* the process-state events of events for projectId, in emission order: the
\* consumer keeps, per project, the state of the last one it received
StateEventsOf(events, projectId) ==
  SelectSeq(events, LAMBDA e : e.channel = "process-state" /\ e.projectId = projectId)

\* C34: whenever the project index maps project P to a running pid, the most
\* recent process-state event emitted for P has status running: a step that
\* emits process-state events for P and leaves the index mapping P to a
\* running pid ends them with a running one
C34_LatestStateIsRunning ==
  [][\A P \in Projects :
       LET sent == StateEventsOf(emitted', P)
       IN  (/\ sent # <<>>
            /\ MapHas(projectIndex', P)
            /\ MapHas(registry', projectIndex'[P])
            /\ registry'[projectIndex'[P]].status = "running")
             => sent[Len(sent)].status = "running"]_vars

(***************************************************************************)
(* C35: getStatus                                                          *)
(***************************************************************************)
\* C35: getStatus(projectId) returns {pid, status: running} with the pid of
\* the project index exactly when the index maps the project to a pid, and
\* {pid: null, status: stopped} otherwise; it never returns status error, and
\* a call leaves every map as it was
C35_StatusFollowsIndex ==
  /\ \A p \in Projects :
       /\ getStatusCall(Cur, p).value = IF MapHas(projectIndex, p)
                                        THEN ProcessState(projectIndex[p], "running")
                                        ELSE ProcessState(0, "stopped")
       /\ getStatusCall(Cur, p).value.status # "error"
       /\ getStatusCall(Cur, p).s = Cur
  /\ returned.call = "getStatus" => returned.value[1].status # "error"

\* getStatus(A) has returned {pid: null, status: stopped} although the last
\* run of A exited on its own with a nonzero code and its entry is in error
C35_Witness ==
  /\ returned.call = "getStatus"
  /\ returned.arg = "A"
  /\ returned.value = <<ProcessState(0, "stopped")>>
  /\ \E pid \in DOMAIN registry :
       /\ registry[pid].projectId = "A"
       /\ registry[pid].status = "error"
       /\ \A other \in DOMAIN registry : other <= pid

(***************************************************************************)
(* C36: only a running entry owns a pid                                    *)
(***************************************************************************)
\* C36: a completed identifyProjectIdFromPid(pid) that returns a project found
\* it through a registry entry whose status is running: pid is the pid of a
\* running entry of that project or descends from one in the table it was
\* given; an entry that is stopped or in error gives no match
C36_OnlyRunningEntriesOwn ==
  [][(LookupDone /\ lookup'.result # NoMatch)
       => \E root \in DOMAIN registry :
            /\ registry[root].status = "running"
            /\ registry[root].projectId = lookup'.result
            /\ \/ root = lookup'.target
               \/ root \in Ancestors(lookup'.tree, lookup'.target)]_vars

(***************************************************************************)
(* C37: one execution of a profile at a time                               *)
(***************************************************************************)
\* the executions of profileId that have not settled
InProgress(execs, profileId) == {e \in execs : e.profileId = profileId}

\* C37: at most one execution of a profile is in progress at any time;
\* runProfile(profileId) rejects with 'Profile is already running' whenever
\* an earlier runProfile of the profile has not settled, also after
\* stopProfile was called for it; and the step that settles one execution
\* leaves the running flag set when another execution is in progress
C37_OneExecutionPerProfile ==
  /\ [](\A id \in Profiles : Cardinality(InProgress(executions, id)) <= 1)
  /\ [][\A id \in Profiles :
         /\ (/\ InProgress(executions, id) # {}
             /\ \E o \in SpawnOutcomesAt(nextPid) : RunProfile(id, o))
              => returned'.value = <<"Profile is already running">>
         /\ (InProgress(executions', id) # {}
               /\ InProgress(executions, id) \ executions' # {})
              => Truthy(runningProfiles', id)]_vars

(***************************************************************************)
(* C38: what shutdown leaves                                               *)
(***************************************************************************)
\* the tree-kills a handler issued for pid
KillsOf(s, pid) == {i \in DOMAIN s.atKill : s.atKill[i].pid = pid}

\* C38: when shutdown() returns, the monitoring timer is cancelled, the
\* project index is empty, every pid the index held before the call has its
\* entry stopped and was issued a tree-kill exactly once, and no registry
\* entry has status running
C38_ShutdownStopsEverything ==
  [][Shutdown
       => /\ monitoringInterval' = "null"
          /\ timers' = 0
          /\ projectIndex' = EmptyMap
          /\ \A p \in DOMAIN projectIndex :
               /\ registry'[projectIndex[p]].status = "stopped"
               /\ Cardinality(KillsOf(shutdownProcesses(Cur), projectIndex[p])) = 1
          /\ \A pid \in DOMAIN registry' : registry'[pid].status # "running"]_vars

====
